---- MODULE Spec2Model ----
(***************************************************************************)
(* Glucose forecasting subsystem of DiabetesAI: the process-wide cache of  *)
(* GlucoseForecastService (config, model, scaler), forecast_from_anchor,   *)
(* the gateway's glucose_forecast and the CSV upload endpoint of           *)
(* backend/glucose_api.py.  Each request is run by one thread, one source  *)
(* statement group per step, so that threads interleave wherever the       *)
(* interpreter may switch between them.                                    *)
(*                                                                         *)
(* Units: timestamps and durations are whole minutes, glucose values are   *)
(* whole mg/dL, JSON numbers of the metadata document are tenths.          *)
(***************************************************************************)
EXTENDS Integers, Sequences, FiniteSets, TLC

\* ------------------------------------------------------------- bounds
NThreads == 2
MaxCalls == 2
MaxRows == 3
MaxCtx == 3
MaxReadings == 4

Threads == 1..NThreads

\* Optional values: None, or a one-element sequence holding the value.
None == <<>>
Some(x) == <<x>>

\* ---------------------------------------------------- JSON metadata
\* A JSON value: k is "absent", "num", "str" or "list"; v is the number in
\* tenths; s the string; items the elements of a list.
JAbsent == [k |-> "absent", v |-> 0, s |-> "", items |-> <<>>]
JNum(t) == [k |-> "num", v |-> t, s |-> "", items |-> <<>>]
JStr(str) == [k |-> "str", v |-> 0, s |-> str, items |-> <<>>]
JList(xs) == [k |-> "list", v |-> 0, s |-> "", items |-> xs]
JInt(n) == JNum(n * 10)

\* Python's int() on a number: truncation towards zero.
PyInt(t) == IF t >= 0 THEN t \div 10 ELSE -((-t) \div 10)

\* dict.get(key, default) on the metadata document.
MetaGet(j, default) == IF j.k = "absent" THEN default ELSE j

DefaultFreqMin == 15
DefaultLookback == 20
DefaultOffsets == JList(<<JInt(2), JInt(4), JInt(6)>>)

OffsetsValid(offsets) ==
    /\ offsets.k = "list"
    /\ \A i \in DOMAIN offsets.items : offsets.items[i].k = "num"

\* str(meta.get(key, default)) for the target and units labels.
PyStr(j) == IF j.k = "str" THEN j.s ELSE "number"

ForecastConfig(freq_min, lookback, offsets, target, units) ==
    [freq_min |-> freq_min, lookback |-> lookback, offsets |-> offsets,
     target |-> target, units |-> units]

\* The body of _load_config from the parsed document on: the error it
\* raises ("none" when it succeeds) and the configuration it builds.
ParseMeta(meta) ==
    LET freq_min == PyInt(MetaGet(meta.freq_min, JInt(DefaultFreqMin)).v)
        lookback == PyInt(MetaGet(meta.lookback, JInt(DefaultLookback)).v)
        offsets == MetaGet(meta.offsets, DefaultOffsets)
    IN  IF ~OffsetsValid(offsets)
        THEN [err |-> "ValueError_offsets", cfg |-> None]
        ELSE [err |-> "none",
              cfg |-> Some(ForecastConfig(
                  freq_min, lookback,
                  [i \in DOMAIN offsets.items |-> PyInt(offsets.items[i].v)],
                  PyStr(MetaGet(meta.target, JStr("glucose"))),
                  PyStr(MetaGet(meta.units, JStr("mg/dL")))))]

MetaDoc(freq_min, lookback, offsets) ==
    [freq_min |-> freq_min, lookback |-> lookback, offsets |-> offsets,
     target |-> JAbsent, units |-> JAbsent]

\* The metadata documents the artifacts directory may hold.
MetaAscending == MetaDoc(JInt(5), JInt(2), JList(<<JInt(1), JInt(2)>>))
MetaUnsorted == MetaDoc(JInt(5), JInt(2), JList(<<JInt(2), JInt(1)>>))
MetaFloat == MetaDoc(JNum(55), JNum(29), JList(<<JNum(15)>>))
MetaNoFreq == MetaDoc(JAbsent, JInt(3), JList(<<JInt(1)>>))
MetaEmptyOffsets == MetaDoc(JInt(5), JInt(2), JList(<<>>))
MetaNegOffset == MetaDoc(JInt(5), JInt(2), JList(<<JInt(-1)>>))
MetaBadOffsets == MetaDoc(JInt(5), JInt(2), JStr("2,4,6"))
MetaBadItem == MetaDoc(JInt(5), JInt(2), JList(<<JInt(1), JStr("x")>>))
MetaDefaults == MetaDoc(JAbsent, JAbsent, JAbsent)
MetaNegFreq == MetaDoc(JInt(-5), JInt(2), JList(<<JInt(1)>>))

MetaDocs ==
    {MetaAscending, MetaUnsorted, MetaFloat, MetaNoFreq, MetaEmptyOffsets,
     MetaNegOffset, MetaBadOffsets, MetaBadItem, MetaDefaults, MetaNegFreq}

\* ------------------------------------------------------ artifacts
ArtifactNames == {"meta", "model", "scaler"}

\* Values a model output may hold (mg/dL).
PredVals == {65, 120, 260}

\* Shapes (rows, columns) of the array model.predict returns.
ModelShapes == {<<1, 1>>, <<1, 2>>, <<2, 1>>, <<1, 3>>, <<1, 0>>}

\* The fitted StandardScaler stored in the scaler file.
ScalerArtifact == [mean |-> 100, scale |-> 40]

\* The artifacts directory: which files exist, the metadata document and
\* the output shape of the stored model.
Env(files, meta, shape) == [files |-> files, meta |-> meta, shape |-> shape]

\* --------------------------------------------------------- variables
VARIABLES
    env,        \* the artifacts directory (never written by the program)
    _config,    \* GlucoseForecastService._config: None or Some(ForecastConfig)
    _model,     \* GlucoseForecastService._model: None or Some(model object)
    _scaler,    \* GlucoseForecastService._scaler: None or Some(scaler object)
    th,         \* per thread: the request it runs, its position and locals
    sessions,   \* the persistence collaborator's store of glucose sessions
    loads,      \* how many times each artifact file has been read from disk
    returned,   \* the configurations get_config has returned so far
    now,        \* time.time(), in seconds
    request_times,  \* GeminiRateLimiter.request_times, oldest first
    lock,       \* GeminiRateLimiter.lock: 0 when free, else its holder
    released    \* the instants at which wait_if_needed returned

lvars == <<now, request_times, lock, released>>

vars == <<env, _config, _model, _scaler, th, sessions, loads, returned,
          now, request_times, lock, released>>

NoReq ==
    [op |-> "none", anchor |-> [k |-> "iso", m |-> 0], ctx |-> <<>>,
     columns |-> {}, rows |-> <<>>, user_id |-> 0]

Idle ==
    [pc |-> "idle", ret |-> "none", req |-> NoReq, ncalls |-> 0,
     err |-> "none", result |-> None,
     cfg |-> None, meta |-> None, loaded |-> None, model |-> None,
     scaler |-> None, anchor_time |-> 0, ctx |-> <<>>, x |-> <<>>,
     y_pred |-> <<>>, fc |-> None, npredict |-> 0, metrics |-> None,
     current_time |-> 0, wait_time |-> 0, wake |-> 0,
     df |-> <<>>, anchor_idx |-> 0, observed |-> <<>>, dashboard |-> None]

\* An error that is not reported: the request just ends.
Swallow(t, e) == th' = [th EXCEPT ![t].pc = "done"]

\* An exception nothing catches: the request ends with the error.
Raise(t, e) == th' = [th EXCEPT ![t].pc = "done", ![t].err = e]

\* ----------------------------------- GlucoseForecastService._load_config
\* A registry that forgets: the attribute never counts as cached.
NeverCached(c) == FALSE

\* Line 62: `_config is not None`.
ConfigCached(c) == c # None

\* Lines 62-63: return the cached configuration when there is one.
lc62(t) ==
    /\ th[t].pc = "lc62"
    /\ IF ConfigCached(_config)
       THEN th' = [th EXCEPT ![t].pc = "lb96", ![t].cfg = _config]
       ELSE th' = [th EXCEPT ![t].pc = "lc65"]
    /\ UNCHANGED <<lvars, env, _config, _model, _scaler, sessions, loads, returned>>

\* An error that names the metadata file whatever is missing.
NotFoundUnnamed(artifact) == "FileNotFound_meta"

\* Lines 66-69, 98-101, 106-109: FileNotFoundError with the path of the
\* missing file in its message.
NotFound(artifact) ==
    CASE artifact = "meta" -> "FileNotFound_meta"
      [] artifact = "model" -> "FileNotFound_model"
      [] artifact = "scaler" -> "FileNotFound_scaler"

\* Lines 65-72: the metadata file must exist; read and parse it.
lc65(t) ==
    /\ th[t].pc = "lc65"
    /\ IF "meta" \notin env.files
       THEN /\ Raise(t, NotFound("meta"))
            /\ UNCHANGED loads
       ELSE /\ th' = [th EXCEPT ![t].pc = "lc75", ![t].meta = Some(env.meta)]
            /\ loads' = [loads EXCEPT !.meta = @ + 1]
    /\ UNCHANGED <<lvars, env, _config, _model, _scaler, sessions, returned>>

\* Lines 75-91: build the configuration, store it in the class attribute
\* and return the attribute.
lc75(t) ==
    /\ th[t].pc = "lc75"
    /\ LET r == ParseMeta(th[t].meta[1])
       IN  IF r.err # "none"
           THEN /\ Raise(t, r.err)
                /\ UNCHANGED _config
           ELSE /\ _config' = r.cfg
                /\ th' = [th EXCEPT ![t].pc = "lb96", ![t].cfg = r.cfg]
    /\ UNCHANGED <<lvars, env, _model, _scaler, sessions, loads, returned>>

\* ----------------------------------- GlucoseForecastService._load_bundle
\* Line 96: is a model cached?
lb96(t) ==
    /\ th[t].pc = "lb96"
    /\ th' = [th EXCEPT ![t].pc = IF _model = None THEN "lb97" ELSE "lb104"]
    /\ UNCHANGED <<lvars, env, _config, _model, _scaler, sessions, loads, returned>>

\* Lines 97-102, right-hand side: the model file must exist; load it.  The
\* object is identified by the number of the load that produced it.
lb97(t) ==
    /\ th[t].pc = "lb97"
    /\ IF "model" \notin env.files
       THEN /\ Raise(t, NotFound("model"))
            /\ UNCHANGED loads
       ELSE /\ th' = [th EXCEPT ![t].pc = "lb102",
                         ![t].loaded = Some([id |-> loads.model + 1,
                                             shape |-> env.shape])]
            /\ loads' = [loads EXCEPT !.model = @ + 1]
    /\ UNCHANGED <<lvars, env, _config, _model, _scaler, sessions, returned>>

\* Line 102, the assignment to the class attribute.
lb102(t) ==
    /\ th[t].pc = "lb102"
    /\ _model' = th[t].loaded
    /\ th' = [th EXCEPT ![t].pc = "lb104", ![t].loaded = None]
    /\ UNCHANGED <<lvars, env, _config, _scaler, sessions, loads, returned>>

\* Line 104: is a scaler cached?
lb104(t) ==
    /\ th[t].pc = "lb104"
    /\ th' = [th EXCEPT ![t].pc = IF _scaler = None THEN "lb105" ELSE "lb112"]
    /\ UNCHANGED <<lvars, env, _config, _model, _scaler, sessions, loads, returned>>

\* Lines 105-110, right-hand side: the scaler file must exist; load it.
lb105(t) ==
    /\ th[t].pc = "lb105"
    /\ IF "scaler" \notin env.files
       THEN /\ Raise(t, NotFound("scaler"))
            /\ UNCHANGED loads
       ELSE /\ th' = [th EXCEPT ![t].pc = "lb110",
                         ![t].loaded = Some([id |-> loads.scaler + 1,
                                             mean |-> ScalerArtifact.mean,
                                             scale |-> ScalerArtifact.scale])]
            /\ loads' = [loads EXCEPT !.scaler = @ + 1]
    /\ UNCHANGED <<lvars, env, _config, _model, _scaler, sessions, returned>>

\* Line 110, the assignment to the class attribute.
lb110(t) ==
    /\ th[t].pc = "lb110"
    /\ _scaler' = th[t].loaded
    /\ th' = [th EXCEPT ![t].pc = "lb112", ![t].loaded = None]
    /\ UNCHANGED <<lvars, env, _config, _model, sessions, loads, returned>>

\* Line 112: return the two class attributes and the configuration to the
\* statement that called _load_bundle.
lb112(t) ==
    /\ th[t].pc = "lb112"
    /\ th' = [th EXCEPT ![t].pc = th[t].ret, ![t].model = _model,
                        ![t].scaler = _scaler]
    /\ UNCHANGED <<lvars, env, _config, _model, _scaler, sessions, loads, returned>>

\* --------------------------------------------- forecast_from_anchor
\* scaler.transform on the (CTX, 1) column: (v - mean) / scale, kept exact
\* as a numerator and a denominator.
ScalerTransform(scaler, values) ==
    [i \in DOMAIN values |->
        [num |-> values[i] - scaler.mean, den |-> scaler.scale]]

\* A length check that only refuses a context that is too short.
PrepareInputShortOnly(ctx_values_mg_dl, lookback, scaler) ==
    IF Len(ctx_values_mg_dl) < lookback
    THEN [err |-> "ShapeError_input", x |-> <<>>]
    ELSE [err |-> "none", x |-> ScalerTransform(scaler, ctx_values_mg_dl)]

\* _prepare_input, lines 122-127: the error it raises and the (1, CTX, 1)
\* input it returns.
PrepareInput(ctx_values_mg_dl, lookback, scaler) ==
    IF Len(ctx_values_mg_dl) # lookback
    THEN [err |-> "ShapeError_input", x |-> <<>>]
    ELSE [err |-> "none", x |-> ScalerTransform(scaler, ctx_values_mg_dl)]

\* The arrays a model of the given output shape may return.
ModelOutputs(shape) == [1..shape[1] -> [1..shape[2] -> PredVals]]

\* arr.reshape(-1): the rows one after the other.
RECURSIVE Flatten(_)
Flatten(arr) ==
    IF arr = <<>> THEN <<>> ELSE Head(arr) \o Flatten(Tail(arr))

\* A normalisation that flattens and does not compare the size.
NormalizeModelOutputUnchecked(y_pred, expected_len) ==
    [err |-> "none", y |-> Flatten(y_pred)]

\* _normalize_model_output, lines 138-142.
NormalizeModelOutput(y_pred, expected_len) ==
    LET arr == Flatten(y_pred)
    IN  IF Len(arr) # expected_len
        THEN [err |-> "ShapeError_output", y |-> <<>>]
        ELSE [err |-> "none", y |-> arr]

Min(a, b) == IF a <= b THEN a ELSE b

ForecastPoint(timestamp, value_mg_dl, ahead_min) ==
    [timestamp |-> timestamp, value_mg_dl |-> value_mg_dl,
     ahead_min |-> ahead_min]

\* Points whose distance from the anchor adds the offset to the sampling
\* interval.
PredictedPointsAdditive(cfg, anchor_time, y) ==
    [i \in 1..Min(Len(cfg.offsets), Len(y)) |->
        LET ahead_min == cfg.freq_min + cfg.offsets[i]
        IN  ForecastPoint(anchor_time + ahead_min, y[i], ahead_min)]

\* Points that pair the outputs with the offsets taken from the last to
\* the first.
PredictedPointsReversed(cfg, anchor_time, y) ==
    [i \in 1..Min(Len(cfg.offsets), Len(y)) |->
        LET ahead_min == cfg.freq_min * cfg.offsets[Len(cfg.offsets) + 1 - i]
        IN  ForecastPoint(anchor_time + ahead_min, y[i], ahead_min)]

\* Lines 158-162: one point per pair of zip(cfg.offsets, y).
PredictedPoints(cfg, anchor_time, y) ==
    [i \in 1..Min(Len(cfg.offsets), Len(y)) |->
        LET ahead_min == cfg.freq_min * cfg.offsets[i]
        IN  ForecastPoint(anchor_time + ahead_min, y[i], ahead_min)]

ForecastOutput(anchor_time, cfg, predicted) ==
    [anchor_time |-> anchor_time, config |-> cfg, predicted |-> predicted]

\* Line 153: _prepare_input on the context and the loaded scaler.
fa153(t) ==
    /\ th[t].pc = "fa153"
    /\ LET r == PrepareInput(th[t].ctx, th[t].cfg[1].lookback, th[t].scaler[1])
       IN  IF r.err # "none"
           THEN Raise(t, r.err)
           ELSE th' = [th EXCEPT ![t].pc = "fa154", ![t].x = r.x]
    /\ UNCHANGED <<lvars, env, _config, _model, _scaler, sessions, loads, returned>>

\* Line 154: model.predict is entered.
fa154(t) ==
    /\ th[t].pc = "fa154"
    /\ th' = [th EXCEPT ![t].pc = "predict", ![t].npredict = @ + 1]
    /\ UNCHANGED <<lvars, env, _config, _model, _scaler, sessions, loads, returned>>

\* Line 154: model.predict returns an array of the model's output shape,
\* or the inference runtime raises.
predict(t) ==
    /\ th[t].pc = "predict"
    /\ \/ \E y_pred \in ModelOutputs(th[t].model[1].shape) :
              th' = [th EXCEPT ![t].pc = "fa156", ![t].y_pred = y_pred]
       \/ Raise(t, "InferenceError")
    /\ UNCHANGED <<lvars, env, _config, _model, _scaler, sessions, loads, returned>>

\* Where forecast_from_anchor returns to.
AfterForecast(op) ==
    CASE op = "gateway" -> "gw55"
      [] op = "upload" -> "bd132"
      [] OTHER -> "done"

\* Lines 156-164: normalise the output, build the points, return.
fa156(t) ==
    /\ th[t].pc = "fa156"
    /\ LET cfg == th[t].cfg[1]
           r == NormalizeModelOutput(th[t].y_pred, Len(cfg.offsets))
           fc == ForecastOutput(th[t].anchor_time, cfg,
                                PredictedPoints(cfg, th[t].anchor_time, r.y))
       IN  IF r.err # "none"
           THEN Raise(t, r.err)
           ELSE th' = [th EXCEPT ![t].pc = AfterForecast(th[t].req.op),
                           ![t].fc = Some(fc),
                           ![t].result =
                               IF th[t].req.op = "forecast" THEN Some(fc) ELSE @]
    /\ UNCHANGED <<lvars, env, _config, _model, _scaler, sessions, loads, returned>>

\* ------------------------------------------- get_config, healthcheck
\* Lines 167-168.
gc168(t) ==
    /\ th[t].pc = "gc168"
    /\ th' = [th EXCEPT ![t].pc = "done", ![t].result = th[t].cfg]
    /\ returned' = returned \cup {th[t].cfg[1]}
    /\ UNCHANGED <<lvars, env, _config, _model, _scaler, sessions, loads>>

\* Lines 171-180.
hc172(t) ==
    /\ th[t].pc = "hc172"
    /\ th' = [th EXCEPT ![t].pc = "done",
                 ![t].result = Some([ok |-> TRUE,
                                     model_loaded |-> th[t].model # None,
                                     scaler_loaded |-> th[t].scaler # None,
                                     freq_min |-> th[t].cfg[1].freq_min,
                                     lookback |-> th[t].cfg[1].lookback,
                                     offsets |-> th[t].cfg[1].offsets])]
    /\ UNCHANGED <<lvars, env, _config, _model, _scaler, sessions, loads, returned>>

\* --------------------------------------- GatewayService.glucose_forecast
\* Lines 39-53: validate the payload, parse the anchor, call the service.
gw39(t) ==
    /\ th[t].pc = "gw39"
    /\ LET req == th[t].req
       IN  IF req.anchor.k = "missing"
           THEN Raise(t, "ValueError_anchor_required")
           ELSE IF Len(req.ctx) = 0
           THEN Raise(t, "ValueError_ctx_required")
           ELSE IF req.anchor.k # "iso"
           THEN Raise(t, "ValueError_anchor_iso")
           ELSE th' = [th EXCEPT ![t].pc = "lc62", ![t].ret = "fa153",
                           ![t].anchor_time = req.anchor.m,
                           ![t].ctx = req.ctx]
    /\ UNCHANGED <<lvars, env, _config, _model, _scaler, sessions, loads, returned>>

\* Lines 55-63: the forecast points as dictionaries.
GatewayPoints(predicted) ==
    [i \in DOMAIN predicted |->
        [timestamp |-> predicted[i].timestamp,
         value_mg_dl |-> predicted[i].value_mg_dl,
         ahead_min |-> predicted[i].ahead_min,
         type |-> "predicted"]]

\* Lines 55-76: the response built from the forecast.
gw55(t) ==
    /\ th[t].pc = "gw55"
    /\ LET fc == th[t].fc[1]
       IN  th' = [th EXCEPT ![t].pc = "done",
                     ![t].result = Some([freq_min |-> fc.config.freq_min,
                                         lookback |-> fc.config.lookback,
                                         offsets |-> fc.config.offsets,
                                         anchor_time |-> fc.anchor_time,
                                         predicted_points |->
                                             GatewayPoints(fc.predicted)])]
    /\ UNCHANGED <<lvars, env, _config, _model, _scaler, sessions, loads, returned>>

\* ------------------------------------------------- _parse_csv_upload
REQUIRED_COLS == {"timestamp", "glucose", "patient_id", "session_id"}

\* A missing (NaN) patient_id or session_id cell.
Null == "NaN"

Range(f) == {f[i] : i \in DOMAIN f}

\* The elements of seq at the positions in idx, in order.
RECURSIVE Pick(_, _, _)
Pick(seq, idx, i) ==
    IF i > Len(seq) THEN <<>>
    ELSE (IF i \in idx THEN <<seq[i]>> ELSE <<>>) \o Pick(seq, idx, i + 1)

\* Lines 45-47: to_datetime / to_numeric with errors="coerce", then dropna:
\* a row survives when both cells parse, and holds the parsed values.
Coerce(rows) ==
    LET kept == Pick(rows, {i \in DOMAIN rows :
                               rows[i].timestamp.p /\ rows[i].glucose.p}, 1)
    IN  [i \in DOMAIN kept |->
            [timestamp |-> kept[i].timestamp.m, glucose |-> kept[i].glucose.v,
             patient_id |-> kept[i].patient_id,
             session_id |-> kept[i].session_id]]

\* Lines 50, 58: column.dropna().unique().
UniqueIds(df, col) == {df[i][col] : i \in DOMAIN df} \ {Null}

\* The table left in the order it came in.
KeepOrder(df) == {df}

\* Line 65, sort_values("timestamp") with the default quicksort, which is
\* not stable: every order of the rows that is ascending by timestamp.
SortValues(df) ==
    {[i \in DOMAIN df |-> df[p[i]]] :
        p \in {q \in Permutations(DOMAIN df) :
                  \A i, j \in DOMAIN df :
                      i < j => df[q[i]].timestamp <= df[q[j]].timestamp}}

\* Line 65, drop_duplicates(subset=["timestamp"], keep="last").
DropDuplicatesLast(df) ==
    Pick(df, {i \in DOMAIN df :
                 \A j \in DOMAIN df : j > i => df[j].timestamp # df[i].timestamp}, 1)

\* A rule that rejects only a table without any id.
NotSingleOnlyEmpty(ids) == Cardinality(ids) = 0

\* Lines 51, 59: the rule of one patient_id and one session_id per upload.
NotSingle(ids) == Cardinality(ids) # 1

\* A row count compared with lookback - 1.
TooFewPointsOffByOne(n, lookback) == n < lookback - 1

\* Line 67: too few rows for the model's lookback.
TooFewPoints(n, lookback) == n < lookback

\* Lines 29-66: read, check the columns, coerce, check the ids, sort and
\* de-duplicate, then ask the forecast service for its configuration.
pu29(t) ==
    /\ th[t].pc = "pu29"
    /\ LET req == th[t].req
           df == Coerce(req.rows)
       IN  IF REQUIRED_COLS \ req.columns # {}
           THEN Raise(t, "HTTP400_missing_columns")
           ELSE IF NotSingle(UniqueIds(df, "patient_id"))
           THEN Raise(t, "HTTP400_patients")
           ELSE IF NotSingle(UniqueIds(df, "session_id"))
           THEN Raise(t, "HTTP400_sessions")
           ELSE \E sorted \in SortValues(df) :
                    th' = [th EXCEPT ![t].pc = "lc62", ![t].ret = "pu67",
                              ![t].df = DropDuplicatesLast(sorted)]
    /\ UNCHANGED <<lvars, env, _config, _model, _scaler, sessions, loads, returned>>

\* Lines 66-73: too few rows for the lookback; else _build_dashboard_payload
\* starts and asks for the configuration again (line 90).
pu67(t) ==
    /\ th[t].pc = "pu67"
    /\ returned' = returned \cup {th[t].cfg[1]}
    /\ IF TooFewPoints(Len(th[t].df), th[t].cfg[1].lookback)
       THEN Raise(t, "HTTP400_points")
       ELSE th' = [th EXCEPT ![t].pc = "lc62", ![t].ret = "bd91"]
    /\ UNCHANGED <<lvars, env, _config, _model, _scaler, sessions, loads>>

Max(a, b) == IF a >= b THEN a ELSE b

\* Python's max() of a non-empty list.
MaxOf(xs) == CHOOSE m \in Range(xs) : \A x \in Range(xs) : x <= m

\* ----------------------------------------------------- DiabeticService
\* Numbers that Python rounds to two decimals are kept in hundredths:
\* tir_pct, tar_pct, tbr_pct and avg_mg_dl hold 100 times their value;
\* min_mg_dl and max_mg_dl are raw readings in mg/dL.

\* round() of the fraction num / den (den > 0) to an integer, a tie going
\* to the even neighbour.
RoundHalfEven(num, den) ==
    LET q == num \div den
        r == num - q * den
    IN  IF 2 * r < den THEN q
        ELSE IF 2 * r > den THEN q + 1
        ELSE IF q % 2 = 0 THEN q ELSE q + 1

\* round(num / den, 2), in hundredths.
Round2(num, den) == RoundHalfEven(100 * num, den)

RECURSIVE SumOf(_)
SumOf(xs) == IF xs = <<>> THEN 0 ELSE Head(xs) + SumOf(Tail(xs))

MinOf(xs) == CHOOSE m \in Range(xs) : \A x \in Range(xs) : m <= x

\* A band that leaves out its two ends.
InRangeOpen(v) == 70 < v /\ v < 180

\* Lines 38-40: the three bands.
InRange(v) == 70 <= v /\ v <= 180
AboveRange(v) == v > 180
BelowRange(v) == v < 70

\* Lines 15-23 and 27-35: the metrics of an empty list.
NoMetrics ==
    [count |-> 0, tir_pct |-> None, tar_pct |-> None, tbr_pct |-> None,
     avg_mg_dl |-> None, min_mg_dl |-> None, max_mg_dl |-> None]

\* Lines 13-51.  A reading is [value_mg_dl |-> None or Some(v)].
ComputeGlycemicMetrics(glucose_readings) ==
    LET kept == Pick(glucose_readings,
                     {i \in DOMAIN glucose_readings :
                         glucose_readings[i].value_mg_dl # None}, 1)
        values == [i \in DOMAIN kept |-> kept[i].value_mg_dl[1]]
        total == Len(values)
        tir == Cardinality({i \in DOMAIN values : InRange(values[i])})
        tar == Cardinality({i \in DOMAIN values : AboveRange(values[i])})
        tbr == Cardinality({i \in DOMAIN values : BelowRange(values[i])})
    IN  IF glucose_readings = <<>> \/ values = <<>> THEN NoMetrics
        ELSE [count |-> total,
              tir_pct |-> Some(Round2(tir * 100, total)),
              tar_pct |-> Some(Round2(tar * 100, total)),
              tbr_pct |-> Some(Round2(tbr * 100, total)),
              avg_mg_dl |-> Some(Round2(SumOf(values), total)),
              min_mg_dl |-> Some(MinOf(values)),
              max_mg_dl |-> Some(MaxOf(values))]

\* A threshold that is reached as soon as it is met.
TarElevatedInclusive(tar) == tar # None /\ tar[1] >= 2500

\* Lines 60-66: the four conditions.
TbrElevated(tbr) == tbr # None /\ tbr[1] > 500
TarElevated(tar) == tar # None /\ tar[1] > 2500
PeakFound(max_val) == max_val # None /\ max_val[1] > 250
VeryLowFound(min_val) == min_val # None /\ min_val[1] < 60

\* Lines 53-69: the alerts, in the order the code appends them.
GenerateAlerts(metrics) ==
    (IF TbrElevated(metrics.tbr_pct) THEN <<"hypoglycemia_risk">> ELSE <<>>)
    \o (IF TarElevated(metrics.tar_pct) THEN <<"hyperglycemia_risk">> ELSE <<>>)
    \o (IF PeakFound(metrics.max_mg_dl) THEN <<"acute_peak">> ELSE <<>>)
    \o (IF VeryLowFound(metrics.min_mg_dl) THEN <<"critical_low">> ELSE <<>>)

\* Lines 5-11.
Analyze(glucose_readings) ==
    LET metrics == ComputeGlycemicMetrics(glucose_readings)
    IN  [metrics |-> metrics, alerts |-> GenerateAlerts(metrics)]

\* Line 6 of analyze, as a step of a request that calls the service.
da6(t) ==
    /\ th[t].pc = "da6"
    /\ th' = [th EXCEPT ![t].pc = "da7",
                 ![t].metrics =
                     Some(ComputeGlycemicMetrics(th[t].req.rows))]
    /\ UNCHANGED <<lvars, env, _config, _model, _scaler, sessions, loads, returned>>

\* Lines 7-11 of analyze.
da7(t) ==
    /\ th[t].pc = "da7"
    /\ th' = [th EXCEPT ![t].pc = "done",
                 ![t].result =
                     Some([metrics |-> th[t].metrics[1],
                           alerts |-> GenerateAlerts(th[t].metrics[1])])]
    /\ UNCHANGED <<lvars, env, _config, _model, _scaler, sessions, loads, returned>>

\* --------------------------------------------- _build_dashboard_payload
\* Python positions are 0-based and a negative one counts from the end.
PyIndexOk(n, i) == -n <= i /\ i < n
PyIndex(n, i) == IF i < 0 THEN i + n ELSE i
PyBound(n, i) == IF i < 0 THEN Max(i + n, 0) ELSE Min(i, n)

\* seq[a:b]
PySlice(seq, a, b) ==
    SubSeq(seq, PyBound(Len(seq), a) + 1, PyBound(Len(seq), b))

\* Lines 94-96: the anchor position (0-based) before the length check.
AnchorIdx(n, cfg) ==
    LET max_off == MaxOf(cfg.offsets)
        anchor_idx == n - 1 - max_off
    IN  IF anchor_idx < cfg.lookback - 1 THEN n - 1 ELSE anchor_idx

\* Lines 95-97: does anchor selection give up on the series?
AnchorTooShort(n, cfg) ==
    /\ n - 1 - MaxOf(cfg.offsets) < cfg.lookback - 1
    /\ n - 1 < cfg.lookback

\* datetime.isoformat(): the text of an instant.
IsoFormat(ts) == [k |-> "iso", m |-> ts]

\* A chart window of history alone: the hour before the anchor, without
\* the anchor's row or any later one.
ObservedPointsPast(df, cfg, anchor_time) ==
    LET chart_start == anchor_time - 60
        chart_df == Pick(df, {i \in DOMAIN df :
                                 /\ df[i].timestamp >= chart_start
                                 /\ df[i].timestamp < anchor_time}, 1)
    IN  [i \in DOMAIN chart_df |->
            [timestamp |-> IsoFormat(chart_df[i].timestamp),
             value_mg_dl |-> chart_df[i].glucose, type |-> "observed"]]

\* A chart window that leaves out the row exactly an hour before the anchor.
ObservedPointsAfterStart(df, cfg, anchor_time) ==
    LET chart_start == anchor_time - 60
        chart_end == anchor_time + cfg.freq_min * MaxOf(cfg.offsets)
        chart_df == Pick(df, {i \in DOMAIN df :
                                 /\ df[i].timestamp > chart_start
                                 /\ df[i].timestamp <= chart_end}, 1)
    IN  [i \in DOMAIN chart_df |->
            [timestamp |-> IsoFormat(chart_df[i].timestamp),
             value_mg_dl |-> chart_df[i].glucose, type |-> "observed"]]

\* Lines 110-127: the rows inside the chart window, as observed points.
ObservedPoints(df, cfg, anchor_time) ==
    LET chart_start == anchor_time - 60
        chart_end == anchor_time + cfg.freq_min * MaxOf(cfg.offsets)
        chart_df == Pick(df, {i \in DOMAIN df :
                                 /\ df[i].timestamp >= chart_start
                                 /\ df[i].timestamp <= chart_end}, 1)
    IN  [i \in DOMAIN chart_df |->
            [timestamp |-> IsoFormat(chart_df[i].timestamp),
             value_mg_dl |-> chart_df[i].glucose, type |-> "observed"]]

\* Lines 90-130: the configuration arrives; pick the anchor, cut the
\* context, collect the observed points and call forecast_from_anchor.
bd91(t) ==
    /\ th[t].pc = "bd91"
    /\ returned' = returned \cup {th[t].cfg[1]}
    /\ LET cfg == th[t].cfg[1]
           df == th[t].df
           n == Len(df)
       IN  IF cfg.offsets = <<>>
           THEN Raise(t, "ValueError_max_empty")
           ELSE IF AnchorTooShort(n, cfg)
           THEN Raise(t, "HTTP400_short")
           ELSE IF ~PyIndexOk(n, AnchorIdx(n, cfg))
           THEN Raise(t, "IndexError")
           ELSE LET anchor_idx == AnchorIdx(n, cfg)
                    row == df[PyIndex(n, anchor_idx) + 1]
                    ctx_df == PySlice(df, anchor_idx - cfg.lookback + 1,
                                      anchor_idx + 1)
                IN  th' = [th EXCEPT
                        ![t].pc = "lc62", ![t].ret = "fa153",
                        ![t].anchor_idx = anchor_idx,
                        ![t].anchor_time = row.timestamp,
                        ![t].ctx = [i \in DOMAIN ctx_df |-> ctx_df[i].glucose],
                        ![t].observed =
                            ObservedPoints(df, cfg, row.timestamp)]
    /\ UNCHANGED <<lvars, env, _config, _model, _scaler, sessions, loads>>

\* Lines 132-149: the connector point, then the forecast points.
\* The forecast points alone, without the point at the anchor.
ForecastPointsOnly(anchor_time, current_value, predicted) ==
    [i \in DOMAIN predicted |->
        [timestamp |-> IsoFormat(predicted[i].timestamp),
         value_mg_dl |-> predicted[i].value_mg_dl, type |-> "predicted"]]

PredictedDashboardPoints(anchor_time, current_value, predicted) ==
    <<[timestamp |-> IsoFormat(anchor_time), value_mg_dl |-> current_value,
       type |-> "predicted"]>>
    \o [i \in DOMAIN predicted |->
           [timestamp |-> IsoFormat(predicted[i].timestamp),
            value_mg_dl |-> predicted[i].value_mg_dl, type |-> "predicted"]]

\* Lines 76-83.
ComputeTrend(values) ==
    IF Len(values) < 2 THEN "stable"
    ELSE LET delta == values[Len(values)] - values[1]
         IN  IF -5 < delta /\ delta < 5 THEN "stable"
             ELSE IF delta > 0 THEN "rising" ELSE "falling"

\* The trend of the whole context, however long.
TrendOfContext(ctx_values) == ComputeTrend(ctx_values)

\* Line 170: _compute_trend(ctx_values[-5:]).
TrendCard(ctx_values) ==
    ComputeTrend(PySlice(ctx_values, -5, Len(ctx_values)))

\* Line 170 taken alone, on the context values of a request.
tr170(t) ==
    /\ th[t].pc = "tr170"
    /\ th' = [th EXCEPT ![t].pc = "done",
                 ![t].result = Some(TrendCard(th[t].ctx))]
    /\ UNCHANGED <<lvars, env, _config, _model, _scaler, sessions, loads, returned>>

\* Lines 152-164: the observed values go through the diabetic analysis
\* (gateway_service.diabetic_analyze with no DIABETIC_SERVICE_URL set, the
\* local DiabeticService) and its metrics become the statistics.
\* An analysis of every point of the chart, the one the connector doubles
\* included: the observed points and the anchor's reading once more.
DashboardAnalysisWithConnector(observed_points) ==
    Analyze([i \in 1..(Len(observed_points) + 1) |->
                [value_mg_dl |->
                    Some(observed_points[Min(i, Len(observed_points))].value_mg_dl)]])

DashboardAnalysis(observed_points) ==
    Analyze([i \in DOMAIN observed_points |->
                [value_mg_dl |-> Some(observed_points[i].value_mg_dl)]])

GlucoseStats(metrics_raw) ==
    [tir |-> metrics_raw.tir_pct, tar |-> metrics_raw.tar_pct,
     tbr |-> metrics_raw.tbr_pct, average |-> metrics_raw.avg_mg_dl,
     count |-> metrics_raw.count]

\* Lines 167-170 and 190-195, in hundredths: (avg + 46.7) / 28.7.
Cards(current, avg_recent, ctx_values) ==
    [current_mg_dl |-> 100 * current,
     average_mg_dl |-> avg_recent,
     estimated_hba1c_pct |->
         IF avg_recent > 0
         THEN RoundHalfEven(100 * (avg_recent + 4670), 2870) ELSE 0,
     trend |-> TrendCard(ctx_values)]

\* Alerts that look at the forecast points only, not at the connector.
DashboardAlertsForecastOnly(predicted_points, analysis_alerts) ==
    (IF \E i \in DOMAIN predicted_points :
            i > 1 /\ predicted_points[i].value_mg_dl < 70
     THEN <<"forecast_hypoglycemia">> ELSE <<>>)
    \o (IF \E i \in DOMAIN predicted_points :
               i > 1 /\ predicted_points[i].value_mg_dl > 250
        THEN <<"forecast_peak">> ELSE <<>>)
    \o analysis_alerts

\* Lines 172-180: the alerts on the predicted values, then those of the
\* analysis.
DashboardAlerts(predicted_points, analysis_alerts) ==
    (IF \E i \in DOMAIN predicted_points :
            predicted_points[i].value_mg_dl < 70
     THEN <<"forecast_hypoglycemia">> ELSE <<>>)
    \o (IF \E i \in DOMAIN predicted_points :
               predicted_points[i].value_mg_dl > 250
        THEN <<"forecast_peak">> ELSE <<>>)
    \o analysis_alerts

\* Lines 87-88: str() of an id cell; a missing cell prints as "nan".
PyStrId(id) == IF id = Null THEN "nan" ELSE id

\* Lines 132-197: the payload once the forecast has returned.  With no
\* observed point the average is None and line 169 compares it with 0.
bd132(t) ==
    /\ th[t].pc = "bd132"
    /\ LET df == th[t].df
           row == df[PyIndex(Len(df), th[t].anchor_idx) + 1]
           predicted_points ==
               PredictedDashboardPoints(th[t].anchor_time, row.glucose,
                                        th[t].fc[1].predicted)
           diabetic_analysis == DashboardAnalysis(th[t].observed)
           glucose_stats == GlucoseStats(diabetic_analysis.metrics)
       IN  IF glucose_stats.average = None
           THEN Raise(t, "TypeError")
           ELSE th' = [th EXCEPT ![t].pc = "up208",
                     ![t].dashboard =
                         Some([meta |-> [patient_id |-> PyStrId(df[1].patient_id),
                                         session_id |-> PyStrId(df[1].session_id),
                                         anchor_time |->
                                             IsoFormat(th[t].anchor_time)],
                               points |-> th[t].observed \o predicted_points,
                               glucoseStats |-> glucose_stats,
                               cards |-> Cards(row.glucose,
                                               glucose_stats.average[1],
                                               th[t].ctx),
                               alerts |->
                                   DashboardAlerts(predicted_points,
                                                   diabetic_analysis.alerts)])]
    /\ UNCHANGED <<lvars, env, _config, _model, _scaler, sessions, loads, returned>>

\* ---------------------------------------------- upload_glucose_session
\* A store that keeps one session per patient and recording session and
\* writes a new upload over the one it holds.
replace_glucose_session(store, user_id, patient_id, source_session_id, anchor_time_iso, dashboard_payload) ==
    IF \E i \in DOMAIN store : store[i].patient_id = patient_id
    THEN [i \in DOMAIN store |->
             IF store[i].patient_id = patient_id
             THEN [store[i] EXCEPT !.payload = dashboard_payload,
                                   !.anchor_time = anchor_time_iso]
             ELSE store[i]]
    ELSE Append(store, [id |-> Len(store) + 1, user_id |-> user_id,
                        patient_id |-> patient_id,
                        source_session_id |-> source_session_id,
                        anchor_time |-> anchor_time_iso,
                        payload |-> dashboard_payload])

\* The persistence collaborator's create_session: append the session under
\* the next integer id.
create_glucose_session(store, user_id, patient_id, source_session_id, anchor_time_iso, dashboard_payload) ==
    Append(store, [id |-> Len(store) + 1, user_id |-> user_id,
                   patient_id |-> patient_id,
                   source_session_id |-> source_session_id,
                   anchor_time |-> anchor_time_iso,
                   payload |-> dashboard_payload])

\* Lines 208-221: persist the dashboard and return it with the new id.
up208(t) ==
    /\ th[t].pc = "up208"
    /\ LET dashboard == th[t].dashboard[1]
       IN  /\ sessions' = create_glucose_session(
                   sessions, th[t].req.user_id, dashboard.meta.patient_id,
                   dashboard.meta.session_id, dashboard.meta.anchor_time,
                   dashboard)
           /\ th' = [th EXCEPT ![t].pc = "done",
                        ![t].result =
                            Some(dashboard @@
                                 [db_session_id |-> Len(sessions) + 1])]
    /\ UNCHANGED <<lvars, env, _config, _model, _scaler, loads, returned>>

\* -------------------------------------------------- GeminiRateLimiter
\* The limiter under study: max_requests calls per time_window seconds,
\* and the last second of the clock.
max_requests == 2
time_window == 3
MaxTime == 6

\* Lines 41-42 and 54-55: drop the recorded instants older than the window.
RECURSIVE Purge(_, _)
Purge(times, current_time) ==
    IF times # <<>> /\ current_time - Head(times) > time_window
    THEN Purge(Tail(times), current_time)
    ELSE times

\* Lines 37-47 and 58-60, under the lock: read the clock, purge, and
\* either record the call and return 0.0 or start to sleep.
wl37(t) ==
    /\ th[t].pc = "wl37"
    /\ lock = 0
    /\ LET current_time == now
           times == Purge(request_times, current_time)
           wait_time == time_window - (current_time - Head(times)) + 1
       IN  IF Len(times) >= max_requests /\ wait_time > 0
           THEN /\ lock' = t
                /\ request_times' = times
                /\ th' = [th EXCEPT ![t].pc = "wl51",
                             ![t].current_time = current_time,
                             ![t].wait_time = wait_time,
                             ![t].wake = current_time + wait_time]
                /\ UNCHANGED released
           ELSE /\ lock' = 0
                /\ request_times' = Append(times, current_time)
                /\ th' = [th EXCEPT ![t].pc = "llm40",
                             ![t].current_time = current_time]
                /\ released' = Append(released, now)
    /\ UNCHANGED <<env, _config, _model, _scaler, sessions, loads, returned,
                   now>>

\* Lines 51-56: time.sleep(wait_time) is over; read the clock, purge again
\* and return wait_time, which leaves the with block.
wl51(t) ==
    /\ th[t].pc = "wl51"
    /\ lock = t
    /\ now >= th[t].wake
    /\ request_times' = Purge(request_times, now)
    /\ lock' = 0
    /\ th' = [th EXCEPT ![t].pc = "llm40", ![t].current_time = now]
    /\ released' = Append(released, now)
    /\ UNCHANGED <<env, _config, _model, _scaler, sessions, loads, returned,
                   now>>

\* RateLimitedLLM.call, line 40: the base LLM is called.
llm40(t) ==
    /\ th[t].pc = "llm40"
    /\ th' = [th EXCEPT ![t].pc = "done", ![t].result = Some("completion")]
    /\ UNCHANGED <<lvars, env, _config, _model, _scaler, sessions, loads, returned>>

\* A second passes.
Tick ==
    /\ now < MaxTime
    /\ now' = now + 1
    /\ UNCHANGED <<env, _config, _model, _scaler, th, sessions, loads,
                   returned, request_times, lock, released>>

\* ------------------------------------------------------- requests
Req(op, anchor, ctx, columns, rows, user_id) ==
    [op |-> op, anchor |-> anchor, ctx |-> ctx, columns |-> columns,
     rows |-> rows, user_id |-> user_id]

Iso(m) == [k |-> "iso", m |-> m]

GetConfigReq == Req("get_config", Iso(0), <<>>, {}, <<>>, 0)
HealthcheckReq == Req("healthcheck", Iso(0), <<>>, {}, <<>>, 0)
ForecastReq(anchor_time, ctx) ==
    Req("forecast", Iso(anchor_time), ctx, {}, <<>>, 0)
GatewayReq(anchor, ctx) == Req("gateway", anchor, ctx, {}, <<>>, 0)
UploadReq(columns, rows, user_id) ==
    Req("upload", Iso(0), <<>>, columns, rows, user_id)
TrendReq(ctx) == Req("trend", Iso(0), ctx, {}, <<>>, 0)
LlmCallReq == Req("llm_call", Iso(0), <<>>, {}, <<>>, 0)
AnalyzeReq(glucose_readings) ==
    Req("analyze", Iso(0), <<>>, {}, glucose_readings, 0)

\* The first statement of each operation and, for those that start with
\* _load_bundle, the statement it returns to.
Entry(op) ==
    CASE op = "gateway" -> "gw39"
      [] op = "upload" -> "pu29"
      [] op = "analyze" -> "da6"
      [] op = "llm_call" -> "wl37"
      [] op = "trend" -> "tr170"
      [] OTHER -> "lc62"

EntryRet(op) ==
    CASE op = "get_config" -> "gc168"
      [] op = "healthcheck" -> "hc172"
      [] op = "forecast" -> "fa153"
      [] OTHER -> "none"

Running(t) == th[t].pc \notin {"idle", "done"}

\* A thread is free to take one more request.
CanStart(t, maxcalls) == ~Running(t) /\ th[t].ncalls < maxcalls

\* A thread takes a request.  upload_glucose_session is a coroutine that
\* never awaits, so the event loop runs one upload at a time; the other
\* operations are plain methods any thread may call.
Start(t, req) ==
    /\ req.op = "upload" =>
           \A u \in Threads \ {t} : ~(Running(u) /\ th[u].req.op = "upload")
    /\ th' = [th EXCEPT ![t] =
                 [Idle EXCEPT !.pc = Entry(req.op), !.ret = EntryRet(req.op),
                              !.req = req, !.ncalls = th[t].ncalls + 1,
                              !.anchor_time = req.anchor.m, !.ctx = req.ctx]]
    /\ UNCHANGED <<lvars, env, _config, _model, _scaler, sessions, loads, returned>>

\* The steps of _load_config and _load_bundle, of forecast_from_anchor,
\* of the gateway and of the upload.
LoadStep(t) ==
    \/ lc62(t) \/ lc65(t) \/ lc75(t)
    \/ lb96(t) \/ lb97(t) \/ lb102(t) \/ lb104(t) \/ lb105(t) \/ lb110(t)
    \/ lb112(t)

ForecastStep(t) == fa153(t) \/ fa154(t) \/ predict(t) \/ fa156(t)

GatewayStep(t) == gw39(t) \/ gw55(t)

UploadStep(t) == pu29(t) \/ pu67(t) \/ bd91(t) \/ bd132(t) \/ up208(t)

InitIn(envs) ==
    /\ env \in envs
    /\ _config = None
    /\ _model = None
    /\ _scaler = None
    /\ th = [t \in Threads |-> Idle]
    /\ sessions = <<>>
    /\ loads = [a \in ArtifactNames |-> 0]
    /\ returned = {}
    /\ now = 0
    /\ request_times = <<>>
    /\ lock = 0
    /\ released = <<>>

\* ------------------------------------------------------ input sets
TsCell(m) == [p |-> TRUE, m |-> m]
BadTs == [p |-> FALSE, m |-> 0]
GlucoseCell(v) == [p |-> TRUE, v |-> v]
BadGlucose == [p |-> FALSE, v |-> 0]

Row(timestamp, glucose, patient_id, session_id) ==
    [timestamp |-> timestamp, glucose |-> glucose,
     patient_id |-> patient_id, session_id |-> session_id]

\* Sampling instants of the uploaded tables: 0, 5, 10, ...
Instant(i) == 5 * (i - 1)

\* Tables that vary the ids and the cells that fail coercion: row i is
\* sampled at Instant(i).
IdVariants ==
    {[pid |-> "A", sid |-> "X", ts |-> TRUE, g |-> TRUE],
     [pid |-> "B", sid |-> "X", ts |-> TRUE, g |-> TRUE],
     [pid |-> "A", sid |-> "Y", ts |-> TRUE, g |-> TRUE],
     [pid |-> Null, sid |-> "X", ts |-> TRUE, g |-> TRUE],
     [pid |-> Null, sid |-> "Y", ts |-> TRUE, g |-> TRUE],
     [pid |-> "A", sid |-> Null, ts |-> TRUE, g |-> TRUE],
     [pid |-> "B", sid |-> "Y", ts |-> FALSE, g |-> TRUE],
     [pid |-> "B", sid |-> "Y", ts |-> TRUE, g |-> FALSE]}

IdTables ==
    UNION {{[i \in 1..n |->
                Row(IF f[i].ts THEN TsCell(Instant(i)) ELSE BadTs,
                    IF f[i].g THEN GlucoseCell(100) ELSE BadGlucose,
                    f[i].pid, f[i].sid)] : f \in [1..n -> IdVariants]}
           : n \in 0..MaxRows}

\* Tables of one patient and one session that vary the timestamps: any
\* order, repeated instants, unparseable cells; row i holds 100 + 10 i.
TsCells == {TsCell(Instant(i)) : i \in 1..MaxRows} \cup {BadTs}

TsTables ==
    UNION {{[i \in 1..n |-> Row(f[i], GlucoseCell(100 + 10 * i), "A", "X")]
               : f \in [1..n -> TsCells]}
           : n \in 0..MaxRows}

\* Tables of one patient and one session, row i sampled at Instant(i),
\* whose glucose cells are numbers of either sign.
GlucoseVals == {-5, 100}

ValueTables ==
    UNION {{[i \in 1..n |-> Row(TsCell(Instant(i)), GlucoseCell(f[i]), "A", "X")]
               : f \in [1..n -> GlucoseVals]}
           : n \in 2..MaxRows}

\* Tables of one patient and one session whose rows lie up to an hour and
\* more apart: on, just inside and just outside the ends of a chart window.
WindowInstants == {0, 59, 60, 65, 66}

WindowTables ==
    UNION {{[i \in 1..n |-> Row(TsCell(f[i]), GlucoseCell(100 + 10 * i), "A", "X")]
               : f \in [1..n -> WindowInstants]}
           : n \in 3..MaxRows}

AllColumns == REQUIRED_COLS \cup {"device"}

UploadRequests ==
    {UploadReq(AllColumns, rows, 1) :
        rows \in IdTables \cup TsTables \cup ValueTables \cup WindowTables}
    \cup {UploadReq(AllColumns \ {"glucose", "session_id"},
                    [i \in 1..2 |-> Row(TsCell(Instant(i)), GlucoseCell(100),
                                        "A", "X")], 1)}

CtxVals == {90, 130}

Contexts == UNION {[1..n -> CtxVals] : n \in 0..MaxCtx}

ForecastRequests ==
    {ForecastReq(m, ctx) : m \in {0, 7}, ctx \in Contexts}

GatewayRequests ==
    {GatewayReq(a, ctx) :
        a \in {Iso(7), [k |-> "missing", m |-> 0], [k |-> "bad", m |-> 0]},
        ctx \in {<<>>, <<90>>, <<90, 130>>, <<90, 130, 90>>}}

AllFiles == ArtifactNames

\* Artifact directories: every metadata document with a model whose
\* output matches its offsets, every output shape and every set of files.
Envs ==
    {Env(AllFiles, MetaAscending, shape) : shape \in ModelShapes}
    \cup {Env(AllFiles, MetaFloat, <<1, 1>>), Env(AllFiles, MetaNoFreq, <<1, 1>>),
          Env(AllFiles, MetaNegOffset, <<1, 1>>),
          Env(AllFiles, MetaUnsorted, <<1, 2>>),
          Env(AllFiles, MetaEmptyOffsets, <<1, 0>>),
          Env(AllFiles, MetaBadOffsets, <<1, 2>>),
          Env(AllFiles, MetaBadItem, <<1, 2>>),
          Env(AllFiles, MetaDefaults, <<1, 3>>)}
    \cup {Env(files, MetaAscending, <<1, 2>>) : files \in SUBSET ArtifactNames}

\* ---------------------------------------------------- specifications
\* Concurrent callers against a complete artifacts directory, one request
\* each: thread 1 is the event loop, which runs the uploads; the others
\* are worker threads calling the forecast service.
ConcRequests(t) ==
    IF t = 1
    THEN {UploadReq(AllColumns,
                    [i \in 1..3 |-> Row(TsCell(Instant(i)),
                                        GlucoseCell(100 + 10 * i), "A", "X")],
                    1)}
    ELSE {GetConfigReq, ForecastReq(0, <<90, 130>>)}

Init == InitIn({Env(AllFiles, MetaFloat, <<1, 1>>)})
Next ==
    \E t \in Threads :
        \/ CanStart(t, 1) /\ \E req \in ConcRequests(t) : Start(t, req)
        \/ LoadStep(t)
        \/ ForecastStep(t)
        \/ gc168(t)
        \/ UploadStep(t)
Spec == Init /\ [][Next]_vars

\* One caller at a time: a sequence of up to MaxCalls calls against any
\* artifacts directory.
SeqRequests(t) ==
    {GetConfigReq, HealthcheckReq, ForecastReq(0, <<90, 130>>),
     ForecastReq(0, <<90>>), GatewayReq(Iso(7), <<90, 130>>),
     UploadReq(AllColumns,
               [i \in 1..3 |-> Row(TsCell(Instant(i)),
                                   GlucoseCell(100 + 10 * i), "A", "X")], 1)}

InitSeq == InitIn(Envs)
NextSeq ==
    \E t \in {1} :
        \/ CanStart(t, MaxCalls) /\ \E req \in SeqRequests(t) : Start(t, req)
        \/ LoadStep(t)
        \/ ForecastStep(t)
        \/ gc168(t)
        \/ hc172(t)
        \/ GatewayStep(t)
        \/ UploadStep(t)
SpecSeq == InitSeq /\ [][NextSeq]_vars

\* One service or gateway call with any input against any artifacts
\* directory.
CallRequests(t) ==
    ForecastRequests \cup GatewayRequests \cup {GetConfigReq, HealthcheckReq}

InitCall == InitIn(Envs)
NextCall ==
    \E t \in {1} :
        \/ CanStart(t, 1) /\ \E req \in CallRequests(t) : Start(t, req)
        \/ LoadStep(t)
        \/ ForecastStep(t)
        \/ gc168(t)
        \/ hc172(t)
        \/ GatewayStep(t)
SpecCall == InitCall /\ [][NextCall]_vars

\* One upload of any table against a complete artifacts directory holding
\* any metadata document.
OneUpload(t) == UploadRequests

UploadEnvs ==
    {e \in Envs : e.files = AllFiles} \cup {Env(AllFiles, MetaNegFreq, <<1, 1>>)}

InitUpload == InitIn(UploadEnvs)
NextUpload ==
    \E t \in {1} :
        \/ CanStart(t, 1) /\ \E req \in OneUpload(t) : Start(t, req)
        \/ LoadStep(t)
        \/ ForecastStep(t)
        \/ UploadStep(t)
SpecUpload == InitUpload /\ [][NextUpload]_vars

\* The trend card on every context of up to MaxTrendCtx values (a context
\* has lookback values) that lie 0, 4 or 5 mg/dL apart, and uploads that
\* carry it into a payload.
MaxTrendCtx == 6

TrendVals == {100, 104, 105}

TrendRequests ==
    {TrendReq(ctx) : ctx \in UNION {[1..n -> TrendVals] : n \in 0..MaxTrendCtx}}
    \cup {UploadReq(AllColumns, rows, 1) : rows \in ValueTables}

InitTrend == InitIn({Env(AllFiles, MetaFloat, <<1, 1>>)})
NextTrend ==
    \E t \in {1} :
        \/ CanStart(t, 1) /\ \E req \in TrendRequests : Start(t, req)
        \/ tr170(t)
        \/ LoadStep(t)
        \/ ForecastStep(t)
        \/ UploadStep(t)
SpecTrend == InitTrend /\ [][NextTrend]_vars

\* Threads that call the rate-limited LLM, up to MaxLlmCalls times each,
\* while the clock runs.
MaxLlmCalls == 3

InitLimiter == InitIn({Env(AllFiles, MetaAscending, <<1, 2>>)})
NextLimiter ==
    \/ \E t \in Threads :
           \/ CanStart(t, MaxLlmCalls) /\ Start(t, LlmCallReq)
           \/ wl37(t)
           \/ wl51(t)
           \/ llm40(t)
    \/ Tick
SpecLimiter == InitLimiter /\ [][NextLimiter]_vars

\* Calls of DiabeticService.analyze: every list of up to MaxReadings
\* readings, a reading holding no value or one around the band and alert
\* thresholds, and two long lists with 5 % and 10 % of low readings.
ReadingVals == {50, 60, 69, 70, 75, 100, 180, 181, 200, 250, 251}

Reading(v) == [value_mg_dl |-> Some(v)]
NoReading == [value_mg_dl |-> None]

Readings == {Reading(v) : v \in ReadingVals} \cup {NoReading}

AnalyzeRequests ==
    {AnalyzeReq(rs) : rs \in UNION {[1..n -> Readings] : n \in 0..MaxReadings}}
    \cup {AnalyzeReq([i \in 1..20 |-> Reading(IF i <= k THEN 65 ELSE 100)])
             : k \in 1..2}

InitStats == InitIn({Env(AllFiles, MetaAscending, <<1, 2>>)})
NextStats ==
    \E t \in {1} :
        \/ CanStart(t, 1) /\ \E req \in AnalyzeRequests : Start(t, req)
        \/ da6(t)
        \/ da7(t)
SpecStats == InitStats /\ [][NextStats]_vars

\* ================================================================ C1
\* C1: single-flight load.  While threads make their first calls to the
\* forecast service concurrently, each artifact (metadata, model, scaler)
\* is read from disk at most once.
SingleFlightLoad == \A a \in ArtifactNames : loads[a] <= 1

\* ================================================================ C2
\* C2: serialized inference.  At most one request is inside model.predict
\* at any time.
InPredict == {t \in Threads : th[t].pc = "predict"}

SerializedInference == Cardinality(InPredict) <= 1

\* ------------------------------------------- what a request was given
\* The configuration the artifacts directory defines, when the metadata
\* document is valid.
ConfigLoadable == "meta" \in env.files /\ ParseMeta(env.meta).err = "none"
BundleLoadable == ConfigLoadable /\ env.files = ArtifactNames
EnvConfig == ParseMeta(env.meta).cfg[1]

IsUpload(t) == th[t].req.op = "upload"

\* The rows of the uploaded table that survive coercion, their distinct
\* ids and their distinct instants.
Surviving(t) == Coerce(th[t].req.rows)
Patients(t) ==
    {Surviving(t)[i].patient_id : i \in DOMAIN Surviving(t)} \ {Null}
Sessions(t) ==
    {Surviving(t)[i].session_id : i \in DOMAIN Surviving(t)} \ {Null}
Instants(t) == {Surviving(t)[i].timestamp : i \in DOMAIN Surviving(t)}

HasColumns(t) == REQUIRED_COLS \subseteq th[t].req.columns

\* An upload of one patient and one session.
SingleSeries(t) ==
    /\ IsUpload(t)
    /\ HasColumns(t)
    /\ Cardinality(Patients(t)) = 1
    /\ Cardinality(Sessions(t)) = 1

\* Nothing of the request went past ingestion: no configuration was asked
\* for, no anchor chosen, no inference run, nothing stored or returned.
Untouched(t) ==
    /\ th[t].ret = "none"
    /\ th[t].npredict = 0
    /\ th[t].fc = None
    /\ th[t].dashboard = None
    /\ th[t].result = None
    /\ sessions = <<>>

\* ================================================================ C3
AnchorErrors == {"HTTP400_short", "IndexError", "ValueError_max_empty"}

\* The upload passed ingestion and anchor selection has run: it either
\* went on to call forecast_from_anchor or raised.
AnchorSelected(t) == IsUpload(t) /\ th[t].ret = "fa153"
AnchorFailed(t) ==
    IsUpload(t) /\ th[t].pc = "done" /\ th[t].err \in AnchorErrors

\* A configuration with a positive lookback and at least one offset, none
\* negative.
PlainConfig(cfg) ==
    /\ cfg.lookback >= 1
    /\ cfg.offsets # <<>>
    /\ \A i \in DOMAIN cfg.offsets : cfg.offsets[i] >= 0

\* C3: for every validated series with len(series) >= lookback (len =
\* lookback included) anchor selection does not fail and yields an index i
\* with i - lookback + 1 >= 0 and i <= len(series) - 1; the too-short
\* error is raised only when len(series) - 1 < lookback - 1.  Stated for
\* plain configurations.
AnchorWithinSeries ==
    \A t \in Threads :
        (/\ AnchorSelected(t) \/ AnchorFailed(t)
         /\ PlainConfig(th[t].cfg[1])
         /\ Len(th[t].df) >= th[t].cfg[1].lookback)
        => /\ ~AnchorFailed(t)
           /\ th[t].anchor_idx - th[t].cfg[1].lookback + 1 >= 0
           /\ th[t].anchor_idx <= Len(th[t].df) - 1
           /\ th[t].err = "HTTP400_short"
                  => Len(th[t].df) - 1 < th[t].cfg[1].lookback - 1

\* ================================================================ C4
\* C4: an upload of one patient and one session that keeps fewer than
\* lookback rows after coercion and de-duplication (fewer distinct
\* parseable instants than lookback) runs no inference, stores no session
\* and ends with the insufficient-points error.
InsufficientPointsRejected ==
    \A t \in Threads :
        (/\ SingleSeries(t)
         /\ BundleLoadable
         /\ Cardinality(Instants(t)) < EnvConfig.lookback)
        => /\ th[t].npredict = 0
           /\ th[t].fc = None
           /\ th[t].dashboard = None
           /\ sessions = <<>>
           /\ th[t].pc = "done"
                  => th[t].err = "HTTP400_points" /\ th[t].result = None

\* An upload with more rows than lookback but only lookback - 1 distinct
\* instants has been rejected.
InsufficientPointsWitness ==
    \E t \in Threads :
        /\ SingleSeries(t)
        /\ BundleLoadable
        /\ Cardinality(Instants(t)) = EnvConfig.lookback - 1
        /\ Len(th[t].req.rows) > EnvConfig.lookback
        /\ th[t].pc = "done"
        /\ th[t].err = "HTTP400_points"

\* ================================================================ C5
\* C5 as stated (the patient rule read first): a table whose surviving
\* rows hold several patients ends with the multiple-patients error, one
\* that holds several sessions (and not several patients) with the
\* multiple-sessions error, and neither is processed any further.
MixedIdsRejectedAsStated ==
    \A t \in Threads :
        (IsUpload(t) /\ HasColumns(t) /\ th[t].pc = "done")
        => /\ Cardinality(Patients(t)) > 1
                  => th[t].err = "HTTP400_patients" /\ Untouched(t)
           /\ (Cardinality(Sessions(t)) > 1 /\ Cardinality(Patients(t)) <= 1)
                  => th[t].err = "HTTP400_sessions" /\ Untouched(t)

\* C5, amended: several patients end with the multiple-patients error;
\* several sessions of exactly one patient end with the multiple-sessions
\* error; several sessions always end with one of the two; and such an
\* upload is never processed any further.
MixedIdsRejected ==
    \A t \in Threads :
        (/\ IsUpload(t)
         /\ HasColumns(t)
         /\ Cardinality(Patients(t)) > 1 \/ Cardinality(Sessions(t)) > 1)
        => /\ Untouched(t)
           /\ th[t].pc = "done" =>
                  /\ th[t].err \in {"HTTP400_patients", "HTTP400_sessions"}
                  /\ Cardinality(Patients(t)) > 1
                         => th[t].err = "HTTP400_patients"
                  /\ Cardinality(Patients(t)) = 1
                         => th[t].err = "HTTP400_sessions"

\* A table of one patient and two sessions has been rejected.
MixedIdsWitness ==
    \E t \in Threads :
        /\ IsUpload(t)
        /\ HasColumns(t)
        /\ Cardinality(Patients(t)) = 1
        /\ Cardinality(Sessions(t)) = 2
        /\ th[t].pc = "done"
        /\ th[t].err = "HTTP400_sessions"

\* ============================================================ C6..C9
\* A call of forecast_from_anchor, made directly or through the gateway
\* (whose own validation let it through), and the call after model.predict
\* has returned and its output has been dealt with.
ForecastCall(t) ==
    \/ th[t].req.op = "forecast"
    \/ /\ th[t].req.op = "gateway"
       /\ th[t].req.anchor.k = "iso"
       /\ th[t].req.ctx # <<>>

AfterPredict(t) ==
    /\ th[t].npredict = 1
    /\ th[t].pc \in {"gw55", "done"}
    /\ th[t].err # "InferenceError"

\* The values of the model output, row after row.
OutputValues(t) == Flatten(th[t].y_pred)

\* C6: a forecast_from_anchor call with a context of exactly lookback
\* values whose model output holds len(offsets) values returns exactly
\* len(offsets) points; the k-th has ahead_min = freq_min * (k-th offset),
\* timestamp = anchor_time + ahead_min minutes and the k-th output value,
\* unscaled.
ForecastPointsAsConfigured ==
    \A t \in Threads :
        (/\ ForecastCall(t)
         /\ BundleLoadable
         /\ AfterPredict(t)
         /\ Len(th[t].req.ctx) = EnvConfig.lookback
         /\ Len(OutputValues(t)) = Len(EnvConfig.offsets))
        => /\ th[t].err = "none"
           /\ th[t].fc # None
           /\ th[t].fc[1].anchor_time = th[t].req.anchor.m
           /\ th[t].fc[1].config = EnvConfig
           /\ Len(th[t].fc[1].predicted) = Len(EnvConfig.offsets)
           /\ \A k \in 1..Len(EnvConfig.offsets) :
                  LET p == th[t].fc[1].predicted[k]
                      o == EnvConfig.offsets[k]
                  IN  /\ p.ahead_min = EnvConfig.freq_min * o
                      /\ p.timestamp =
                             th[t].req.anchor.m + EnvConfig.freq_min * o
                      /\ p.value_mg_dl = OutputValues(t)[k]

\* A forecast from anchor 7 with sampling interval 5 and offsets 1, 2 has
\* returned the outputs 260 and 65 at +5 and +10 minutes.
ForecastPointsWitness ==
    \E t \in Threads :
        /\ th[t].req.op = "forecast"
        /\ th[t].pc = "done"
        /\ th[t].err = "none"
        /\ EnvConfig.freq_min = 5
        /\ EnvConfig.offsets = <<1, 2>>
        /\ th[t].req.anchor.m = 7
        /\ OutputValues(t) = <<260, 65>>
        /\ th[t].result # None
        /\ th[t].result[1].predicted =
               <<ForecastPoint(12, 260, 5), ForecastPoint(17, 65, 10)>>

\* C7 as stated: for every configuration the registry loads and every
\* context of exactly lookback values, the returned forecast points are in
\* ascending ahead_min order.
AscendingAheadMin ==
    \A t \in Threads :
        (ForecastCall(t) /\ th[t].fc # None)
        => \A i, j \in DOMAIN th[t].fc[1].predicted :
               i < j => th[t].fc[1].predicted[i].ahead_min
                            < th[t].fc[1].predicted[j].ahead_min

\* A sequence of numbers that grows from each element to the next, and
\* the ahead_min of the returned points.
StrictlyAscending(xs) == \A i, j \in DOMAIN xs : i < j => xs[i] < xs[j]

AheadMins(t) ==
    [k \in DOMAIN th[t].fc[1].predicted |->
        th[t].fc[1].predicted[k].ahead_min]

\* C7, amended: the returned points follow the configured offsets, the
\* k-th lying freq_min * (k-th offset) minutes ahead; with a positive
\* sampling interval they are in ascending ahead_min order exactly when the
\* configured offsets are strictly ascending.
OffsetOrderKept ==
    \A t \in Threads :
        (ForecastCall(t) /\ th[t].fc # None)
        => /\ AheadMins(t) =
                  [k \in DOMAIN EnvConfig.offsets |->
                      EnvConfig.freq_min * EnvConfig.offsets[k]]
           /\ EnvConfig.freq_min > 0
                  => (StrictlyAscending(AheadMins(t))
                          <=> StrictlyAscending(EnvConfig.offsets))

\* A forecast for the offsets 1, 2 has returned its points at +5 and +10
\* minutes.
OffsetOrderWitness ==
    \E t \in Threads :
        /\ ForecastCall(t)
        /\ th[t].fc # None
        /\ th[t].pc = "done"
        /\ EnvConfig.offsets = <<1, 2>>
        /\ AheadMins(t) = <<5, 10>>

\* C8: a forecast_from_anchor call, direct or through the gateway, whose
\* context is shorter or longer than lookback never invokes the model and
\* yields no points; with the artifacts in place it ends with the input
\* shape error.
ContextLengthEnforced ==
    \A t \in Threads :
        (/\ ForecastCall(t)
         /\ ConfigLoadable
         /\ Len(th[t].req.ctx) # EnvConfig.lookback)
        => /\ th[t].npredict = 0
           /\ th[t].pc # "predict"
           /\ th[t].fc = None
           /\ (th[t].pc = "done" /\ BundleLoadable)
                  => th[t].err = "ShapeError_input" /\ th[t].result = None

\* A gateway call with a context one value longer than lookback has ended
\* with the input shape error.
ContextLengthWitness ==
    \E t \in Threads :
        /\ th[t].req.op = "gateway"
        /\ BundleLoadable
        /\ Len(th[t].req.ctx) = EnvConfig.lookback + 1
        /\ th[t].pc = "done"
        /\ th[t].err = "ShapeError_input"
        /\ th[t].npredict = 0

\* C9: when the flattened model output does not hold exactly len(offsets)
\* values, forecast_from_anchor ends with the output shape error and
\* returns no forecast point.
OutputLengthEnforced ==
    \A t \in Threads :
        (/\ ForecastCall(t)
         /\ AfterPredict(t)
         /\ Len(OutputValues(t)) # Len(th[t].cfg[1].offsets))
        => /\ th[t].pc = "done"
           /\ th[t].err = "ShapeError_output"
           /\ th[t].fc = None
           /\ th[t].result = None

\* A model that returns three values for two offsets has made the call
\* fail, and so has one that returns a single value.
OutputLengthWitness ==
    \E t \in Threads :
        /\ th[t].req.op = "forecast"
        /\ AfterPredict(t)
        /\ Len(th[t].cfg[1].offsets) = 2
        /\ Len(OutputValues(t)) = 3
        /\ th[t].err = "ShapeError_output"

\* =============================================================== C10
\* A call of the forecast service that returned normally.
Succeeded(t) ==
    /\ th[t].req.op \in {"get_config", "healthcheck", "forecast"}
    /\ th[t].pc = "done"
    /\ th[t].err = "none"

\* Everything the registry caches is in place, as it is from the first
\* successful call on.
BundleCached == _config # None /\ _model # None /\ _scaler # None

\* C10: along any sequence of calls made one after the other, every
\* get_config returns the same configuration (the one the metadata
\* document defines), and from the first successful call on each of the
\* three artifacts has been read from disk exactly once, however many
\* calls follow.
SequentialIdempotence ==
    /\ \A c \in returned : ConfigLoadable /\ c = EnvConfig
    /\ ((\E t \in Threads : Succeeded(t)) \/ returned # {} \/ BundleCached)
           => \A a \in ArtifactNames : loads[a] = 1

\* A second get_config is about to return after an earlier get_config has
\* returned, with one read of each artifact.
SequentialIdempotenceWitness ==
    /\ th[1].ncalls = 2
    /\ th[1].req.op = "get_config"
    /\ th[1].pc = "gc168"
    /\ returned # {}
    /\ ConfigLoadable
    /\ th[1].cfg = Some(EnvConfig)
    /\ \A a \in ArtifactNames : loads[a] = 1

\* =============================================================== C11
\* The points of a payload that are tagged predicted, in payload order.
PredictedOf(points) ==
    Pick(points, {i \in DOMAIN points : points[i].type = "predicted"}, 1)

\* An upload whose dashboard payload has been built.
HasDashboard(t) == IsUpload(t) /\ th[t].dashboard # None

\* C11: in every dashboard payload the first point tagged predicted lies
\* at meta.anchor_time and holds the glucose value of the series row at
\* that instant, and the points
\* after it are the model's forecast points, one per configured offset in
\* the configured order.
ConnectorPointFirst ==
    \A t \in Threads :
        HasDashboard(t)
        => LET d == th[t].dashboard[1]
               pred == PredictedOf(d.points)
               df == th[t].df
               cfg == EnvConfig
           IN  /\ pred # <<>>
               /\ pred[1].timestamp = d.meta.anchor_time
               /\ \E i \in DOMAIN df :
                      /\ IsoFormat(df[i].timestamp) = d.meta.anchor_time
                      /\ pred[1].value_mg_dl = df[i].glucose
                      /\ Len(pred) = 1 + Len(cfg.offsets)
                      /\ \A k \in 1..Len(cfg.offsets) :
                             /\ pred[k + 1].timestamp =
                                    IsoFormat(df[i].timestamp
                                              + cfg.freq_min * cfg.offsets[k])
                             /\ pred[k + 1].value_mg_dl = OutputValues(t)[k]

\* An upload has returned a payload whose predicted points are the anchor
\* row's 130 mg/dL followed by the two outputs 260 and 65.
ConnectorPointWitness ==
    \E t \in Threads :
        /\ IsUpload(t)
        /\ th[t].pc = "done"
        /\ th[t].err = "none"
        /\ th[t].result # None
        /\ LET pred == PredictedOf(th[t].result[1].points)
           IN  /\ Len(pred) = 3
               /\ pred[1].value_mg_dl = 130
               /\ pred[2].value_mg_dl = 260
               /\ pred[3].value_mg_dl = 65

\* =============================================================== C12
\* A finished call of the stats engine, the positions of its readings that
\* hold a value and those whose value lies in a band.
Analyzed(t) == th[t].req.op = "analyze" /\ th[t].pc = "done"

Valid(t) ==
    {i \in DOMAIN th[t].req.rows : th[t].req.rows[i].value_mg_dl # None}

ValueAt(t, i) == th[t].req.rows[i].value_mg_dl[1]

InBand(t, lo, hi) == {i \in Valid(t) : lo <= ValueAt(t, i) /\ ValueAt(t, i) <= hi}

\* x, in hundredths, is num / den rounded to two decimals.
IsRounded(x, num, den) ==
    x # None /\ 2 * (x[1] * den - 100 * num) <= den
             /\ 2 * (100 * num - x[1] * den) <= den

TheExample == [i \in 1..4 |-> Reading(<<50, 75, 100, 200>>[i])]

\* C12: count is the number of readings that hold a value; with none, all
\* of tir, tar, tbr, avg, min and max are null; otherwise each value falls
\* in exactly one band (70..180, above 180, below 70) and each band is
\* reported as its percentage of count rounded to two decimals, with the
\* rounded mean, the least and the greatest value; [50, 75, 100, 200]
\* gives tir 50.0, tbr 25.0, tar 25.0 and avg 106.25.
StatsAgreeWithReference ==
    \A t \in Threads :
        Analyzed(t)
        => LET m == th[t].result[1].metrics
               n == Cardinality(Valid(t))
               in_range == InBand(t, 70, 180)
               above == {i \in Valid(t) : ValueAt(t, i) > 180}
               below == {i \in Valid(t) : ValueAt(t, i) < 70}
           IN  /\ m.count = n
               /\ n = 0 => m = NoMetrics
               /\ n > 0 =>
                      /\ Cardinality(in_range) + Cardinality(above)
                             + Cardinality(below) = n
                      /\ IsRounded(m.tir_pct, 100 * Cardinality(in_range), n)
                      /\ IsRounded(m.tar_pct, 100 * Cardinality(above), n)
                      /\ IsRounded(m.tbr_pct, 100 * Cardinality(below), n)
                      /\ IsRounded(m.avg_mg_dl,
                                   SumOf([i \in 1..Len(th[t].req.rows) |->
                                             IF i \in Valid(t)
                                             THEN ValueAt(t, i) ELSE 0]), n)
                      /\ m.min_mg_dl # None /\ m.max_mg_dl # None
                      /\ \E i \in Valid(t) : ValueAt(t, i) = m.min_mg_dl[1]
                      /\ \E i \in Valid(t) : ValueAt(t, i) = m.max_mg_dl[1]
                      /\ \A i \in Valid(t) :
                             /\ m.min_mg_dl[1] <= ValueAt(t, i)
                             /\ ValueAt(t, i) <= m.max_mg_dl[1]
               /\ th[t].req.rows = TheExample =>
                      /\ m.tir_pct = Some(5000)
                      /\ m.tbr_pct = Some(2500)
                      /\ m.tar_pct = Some(2500)
                      /\ m.avg_mg_dl = Some(10625)

\* The engine has returned count 3, tir 66.67 and tbr 33.33 for the
\* readings 70, no value, 180, 69.
StatsWitness ==
    \E t \in Threads :
        /\ Analyzed(t)
        /\ th[t].req.rows =
               <<Reading(70), NoReading, Reading(180), Reading(69)>>
        /\ th[t].result[1].metrics.count = 3
        /\ th[t].result[1].metrics.tir_pct = Some(6667)
        /\ th[t].result[1].metrics.tbr_pct = Some(3333)
        /\ th[t].result[1].metrics.tar_pct = Some(0)

\* =============================================================== C13
\* C13: the hypoglycemia-risk alert is raised exactly when tbr_pct > 5, the
\* hyperglycemia-risk alert exactly when tar_pct > 25, the acute-peak alert
\* exactly when max > 250 and the critical-low alert exactly when min < 60,
\* a null metric raising nothing and no alert being raised twice; the
\* readings [50, 75, 100, 200] raise the hypoglycemia-risk and critical-low
\* alerts and not the hyperglycemia-risk alert.
AlertsFollowThresholds ==
    \A t \in Threads :
        Analyzed(t)
        => LET m == th[t].result[1].metrics
               alerts == th[t].result[1].alerts
               raised == Range(alerts)
           IN  /\ Len(alerts) = Cardinality(raised)
               /\ raised \subseteq {"hypoglycemia_risk", "hyperglycemia_risk",
                                    "acute_peak", "critical_low"}
               /\ "hypoglycemia_risk" \in raised
                      <=> (m.tbr_pct # None /\ m.tbr_pct[1] > 500)
               /\ "hyperglycemia_risk" \in raised
                      <=> (m.tar_pct # None /\ m.tar_pct[1] > 2500)
               /\ "acute_peak" \in raised
                      <=> (m.max_mg_dl # None /\ m.max_mg_dl[1] > 250)
               /\ "critical_low" \in raised
                      <=> (m.min_mg_dl # None /\ m.min_mg_dl[1] < 60)
               /\ m = NoMetrics => alerts = <<>>
               /\ th[t].req.rows = TheExample =>
                      /\ "hypoglycemia_risk" \in raised
                      /\ "critical_low" \in raised
                      /\ "hyperglycemia_risk" \notin raised

\* The readings 50, 75, 100, 200 (tar exactly 25 %) have raised the
\* hypoglycemia-risk and critical-low alerts only.
AlertsWitness ==
    \E t \in Threads :
        /\ Analyzed(t)
        /\ th[t].req.rows = TheExample
        /\ th[t].result[1].metrics.tar_pct = Some(2500)
        /\ th[t].result[1].alerts = <<"hypoglycemia_risk", "critical_low">>

\* =============================================================== C14
\* A well-formed upload: one patient, one session, every cell parseable,
\* no instant repeated.
WellFormed(t) ==
    /\ SingleSeries(t)
    /\ Len(Surviving(t)) = Len(th[t].req.rows)
    /\ Cardinality(Instants(t)) = Len(th[t].req.rows)

\* _parse_csv_upload has returned its table to upload_glucose_session.
Ingested(t) == IsUpload(t) /\ th[t].ret \in {"bd91", "fa153"}

IngestionErrors ==
    {"HTTP400_missing_columns", "HTTP400_patients", "HTTP400_sessions",
     "HTTP400_points"}

\* C14: a well-formed table of n >= lookback rows (n = lookback included,
\* rows in any order) is ingested without an error, and the series
\* returned has exactly n rows, holds the same (timestamp, value) pairs and
\* is ascending by timestamp.
IngestionRoundTrip ==
    \A t \in Threads :
        (/\ WellFormed(t)
         /\ BundleLoadable
         /\ Len(th[t].req.rows) >= EnvConfig.lookback)
        => /\ th[t].err \notin IngestionErrors
           /\ th[t].pc = "done" => Ingested(t)
           /\ Ingested(t) =>
                  /\ Len(th[t].df) = Len(th[t].req.rows)
                  /\ {<<th[t].df[i].timestamp, th[t].df[i].glucose>> :
                         i \in DOMAIN th[t].df}
                     = {<<Surviving(t)[i].timestamp, Surviving(t)[i].glucose>> :
                           i \in DOMAIN Surviving(t)}
                  /\ \A i, j \in DOMAIN th[t].df :
                         i < j => th[t].df[i].timestamp < th[t].df[j].timestamp

\* A table of exactly lookback rows, the later reading first, has been
\* ingested.
IngestionRoundTripWitness ==
    \E t \in Threads :
        /\ WellFormed(t)
        /\ BundleLoadable
        /\ Len(th[t].req.rows) = EnvConfig.lookback
        /\ Len(th[t].req.rows) >= 2
        /\ th[t].req.rows[1].timestamp.m > th[t].req.rows[2].timestamp.m
        /\ Ingested(t)
        /\ Len(th[t].df) = EnvConfig.lookback

\* =============================================================== C15
\* The errors of artifact loading, input preparation, inference and output
\* normalisation.
ForecastFailures ==
    {"FileNotFound_meta", "FileNotFound_model", "FileNotFound_scaler",
     "ValueError_offsets", "ShapeError_input", "InferenceError",
     "ShapeError_output"}

\* A request that runs the forecaster.
ForecastRequest(t) == ForecastCall(t) \/ IsUpload(t)

\* The values of the forecast points of a dashboard payload.
ForecastValuesOf(d) ==
    LET pred == Tail(PredictedOf(d.points))
    IN  [k \in DOMAIN pred |-> pred[k].value_mg_dl]

\* The calls of the one caller that have ended with a stored session at
\* most: all but the current one when it is running, has failed or is not
\* an upload.
MayHaveStored ==
    IF th[1].ncalls = 0 THEN 0
    ELSE IF IsUpload(1) /\ th[1].pc = "done" /\ th[1].err = "none"
    THEN th[1].ncalls ELSE th[1].ncalls - 1

\* C15: a request invokes model inference at most once; when artifact
\* loading, input preparation, inference or output normalisation fails it
\* ends with that error and with no forecast, no dashboard payload, no
\* result and no stored session; a request that ends without an error has
\* a result; and forecast points, in a forecast or a payload, are the
\* values the model returned for that request.
NoRetryNoDefault ==
    /\ Len(sessions) <= MayHaveStored
    /\ \A t \in Threads :
           ForecastRequest(t)
           => /\ th[t].npredict <= 1
              /\ th[t].err \in ForecastFailures
                     => /\ th[t].pc = "done"
                        /\ th[t].fc = None
                        /\ th[t].dashboard = None
                        /\ th[t].result = None
              /\ (th[t].pc = "done" /\ th[t].err # "none")
                     => th[t].result = None
              /\ (th[t].pc = "done" /\ th[t].err = "none")
                     => th[t].result # None /\ th[t].fc # None
              /\ th[t].fc # None
                     => /\ th[t].npredict = 1
                        /\ [k \in DOMAIN th[t].fc[1].predicted |->
                               th[t].fc[1].predicted[k].value_mg_dl]
                           = OutputValues(t)
              /\ th[t].dashboard # None
                     => /\ th[t].fc # None
                        /\ ForecastValuesOf(th[t].dashboard[1])
                           = OutputValues(t)

\* After one stored upload, a second upload of the same table has failed
\* inside model.predict and has left the store with that one session.
NoRetryWitness ==
    /\ th[1].ncalls = 2
    /\ IsUpload(1)
    /\ th[1].pc = "done"
    /\ th[1].err = "InferenceError"
    /\ th[1].npredict = 1
    /\ Len(sessions) = 1

\* =============================================================== C16
\* A finished call of get_config, forecast_from_anchor or healthcheck.
RegistryCall(t) ==
    /\ th[t].req.op \in {"get_config", "healthcheck"} \/ ForecastCall(t)
    /\ th[t].pc = "done"

\* The first file, in the order the registry loads them, that is absent.
FirstMissing ==
    IF "meta" \notin env.files THEN "meta"
    ELSE IF "model" \notin env.files THEN "model" ELSE "scaler"

\* C16: when the metadata, model or scaler file is absent as the registry
\* comes to load it, the call ends with the not-found error that names
\* that file and returns no configuration, model, scaler or forecast; and
\* a not-found error always names a file that is absent.
MissingArtifactReported ==
    \A t \in Threads :
        RegistryCall(t)
        => /\ (/\ env.files # ArtifactNames
               /\ "meta" \in env.files => ParseMeta(env.meta).err = "none")
                  => /\ th[t].err = "FileNotFound_" \o FirstMissing
                     /\ th[t].result = None
                     /\ th[t].fc = None
                     /\ th[t].model = None
                     /\ th[t].scaler = None
                     /\ th[t].npredict = 0
           /\ \A a \in ArtifactNames :
                  th[t].err = "FileNotFound_" \o a => a \notin env.files

\* A healthcheck against a directory without the scaler file has ended
\* with the error naming the scaler, the model file having been loaded.
MissingArtifactWitness ==
    \E t \in Threads :
        /\ th[t].req.op = "healthcheck"
        /\ th[t].pc = "done"
        /\ env.files = {"meta", "model"}
        /\ th[t].err = "FileNotFound_scaler"
        /\ loads.model = 1

\* =============================================================== C17
\* C17: every reading of an ingested series is non-negative: no negative
\* glucose value is in the series handed to anchor selection, in the
\* context given to the model or among the points of the dashboard.
AcceptedReadingsNonNegative ==
    \A t \in Threads :
        IsUpload(t)
        => /\ Ingested(t) =>
                  \A i \in DOMAIN th[t].df : th[t].df[i].glucose >= 0
           /\ \A i \in DOMAIN th[t].ctx : th[t].ctx[i] >= 0
           /\ th[t].dashboard # None =>
                  \A i \in DOMAIN th[t].dashboard[1].points :
                      th[t].dashboard[1].points[i].type = "observed"
                          => th[t].dashboard[1].points[i].value_mg_dl >= 0

\* =============================================================== C18
\* An upload that has returned its payload.
Uploaded(t) == IsUpload(t) /\ th[t].pc = "done" /\ th[t].err = "none"

\* The payload returned is the one stored under its db_session_id, with
\* that one field added.
ReturnedAsStored(t) ==
    LET r == th[t].result[1]
    IN  /\ DOMAIN r = DOMAIN th[t].dashboard[1] \cup {"db_session_id"}
        /\ "db_session_id" \notin DOMAIN th[t].dashboard[1]
        /\ r.db_session_id \in DOMAIN sessions
        /\ sessions[r.db_session_id].id = r.db_session_id
        /\ sessions[r.db_session_id].payload = th[t].dashboard[1]
        /\ [f \in DOMAIN th[t].dashboard[1] |-> r[f]] = th[t].dashboard[1]

\* A step that changes the store is the last step of one upload whose
\* payload is complete: it adds that payload as one new session and leaves
\* every session already stored as it was.
StoreOnlyAppends ==
    sessions' # sessions
    => /\ Len(sessions') = Len(sessions) + 1
       /\ \A i \in DOMAIN sessions : sessions'[i] = sessions[i]
       /\ \E t \in Threads :
              /\ IsUpload(t)
              /\ th[t].pc = "up208"
              /\ th[t].dashboard # None
              /\ th'[t].pc = "done"
              /\ th'[t].err = "none"
              /\ sessions'[Len(sessions')].payload = th[t].dashboard[1]

\* C18: a successful upload hands its finished payload to the store's
\* create_session exactly once, as one new session, no stored session is
\* ever changed (a second upload of the same table adds a second session),
\* and the payload returned is the stored one in every field plus
\* db_session_id.
PersistedOnceUnedited ==
    /\ [](/\ Len(sessions) <= MayHaveStored
          /\ \A t \in Threads : Uploaded(t) => ReturnedAsStored(t))
    /\ [][StoreOnlyAppends]_vars

\* A second upload of the same table has returned with db_session_id 2,
\* the first session still stored under id 1.
PersistedTwiceWitness ==
    /\ th[1].ncalls = 2
    /\ Uploaded(1)
    /\ Len(sessions) = 2
    /\ th[1].result[1].db_session_id = 2
    /\ sessions[1].id = 1
    /\ sessions[1].patient_id = sessions[2].patient_id
    /\ sessions[1].source_session_id = sessions[2].source_session_id

\* =============================================================== C20
\* The anchor position (0-based) the two-tier rule gives for a series of n
\* rows: n - 1 - max(offsets) when lookback rows end there, else n - 1.
TwoTierIndex(n, cfg) ==
    IF n - 1 - MaxOf(cfg.offsets) >= cfg.lookback - 1
    THEN n - 1 - MaxOf(cfg.offsets) ELSE n - 1

\* C20: once anchor selection has run on an ingested series of n rows, the
\* anchor is at n - 1 - m when n - 1 - m >= lookback - 1 and at n - 1
\* otherwise (m = max(offsets)), and the context handed to the forecaster
\* is the lookback consecutive values that end at the anchor, the last one
\* being the anchor's own.  Stated for plain configurations.
TwoTierAnchorRule ==
    \A t \in Threads :
        (/\ AnchorSelected(t) \/ AnchorFailed(t)
         /\ PlainConfig(th[t].cfg[1]))
        => LET cfg == th[t].cfg[1]
               df == th[t].df
               a == TwoTierIndex(Len(df), cfg)
           IN  /\ AnchorSelected(t)
               /\ th[t].anchor_idx = a
               /\ Len(th[t].ctx) = cfg.lookback
               /\ \A k \in 1..cfg.lookback :
                      th[t].ctx[k] = df[a - cfg.lookback + 1 + k].glucose
               /\ th[t].ctx[cfg.lookback] = df[a + 1].glucose

\* =============================================================== C19
\* The calls released from second s on, before second s + time_window.
ReleasedWithin(s) ==
    {i \in DOMAIN released : s <= released[i] /\ released[i] < s + time_window}

\* C19: whatever the calls and their interleaving, waiting calls included,
\* no more than max_requests calls are released to the LLM within any
\* interval of time_window seconds.
RateLimitRespected ==
    \A s \in 0..MaxTime : Cardinality(ReleasedWithin(s)) <= max_requests

\* =============================================================== C21
\* A step keeps whatever the registry has cached already.
CacheKept ==
    /\ _config # None => _config' = _config
    /\ _model # None => _model' = _model
    /\ _scaler # None => _scaler' = _scaler

\* C21: the registry's load state only moves forward and loaded is final:
\* under any interleaving of concurrent callers, a cached configuration,
\* model or scaler is never reset to empty and never replaced by another
\* loaded copy, so that every later call obtains the instance an earlier
\* call obtained.
LoadedIsTerminal == [][CacheKept]_vars

\* =============================================================== C30
\* No call is under way.
Quiescent == \A t \in Threads : ~Running(t)

\* Some call ended with an error raised while the registry was loading.
LoadErrors ==
    {"FileNotFound_meta", "FileNotFound_model", "FileNotFound_scaler",
     "ValueError_offsets"}

LoadFailed(t) == th[t].pc = "done" /\ th[t].err \in LoadErrors

\* C30: the cache is all-or-nothing: whenever no call is under way, also
\* after a load that failed on a missing artifact or on invalid metadata,
\* the cached configuration, model and scaler are all absent or all
\* present; a failed load leaves all three absent.
CacheAllOrNothing ==
    Quiescent
    => /\ \/ _config = None /\ _model = None /\ _scaler = None
          \/ BundleCached
       /\ (\E t \in Threads : LoadFailed(t))
              => _config = None /\ _model = None /\ _scaler = None

\* =============================================================== C22
\* A configuration whose forecast instants follow the anchor in order: a
\* positive sampling period and positive, strictly ascending offsets.
ForwardConfig(cfg) ==
    /\ cfg.freq_min > 0
    /\ cfg.offsets # <<>>
    /\ cfg.offsets[1] > 0
    /\ StrictlyAscending(cfg.offsets)

\* The anchor is the last row of the series (live) or an earlier row, with
\* observed rows after it (retrospective).
LiveAnchor(t) == th[t].anchor_idx = Len(th[t].df) - 1
RetrospectiveAnchor(t) == th[t].anchor_idx < Len(th[t].df) - 1

Chronological(points) ==
    \A i \in 1..(Len(points) - 1) : points[i].timestamp.m <= points[i + 1].timestamp.m

\* C22: the points list of every dashboard payload is chronological, with
\* a retrospective anchor as with a live one: the timestamps of
\* consecutive points never decrease.  Stated for configurations whose
\* forecast instants are in order.
PointsChronological ==
    \A t \in Threads :
        (HasDashboard(t) /\ ForwardConfig(EnvConfig))
        => Chronological(th[t].dashboard[1].points)

\* =============================================================== C23
\* The points of a payload that are tagged observed, in payload order, and
\* their values.
ObservedOf(points) ==
    Pick(points, {i \in DOMAIN points : points[i].type = "observed"}, 1)

ValuesOf(points) == [i \in DOMAIN points |-> points[i].value_mg_dl]

EngineAlerts ==
    {"hypoglycemia_risk", "hyperglycemia_risk", "acute_peak", "critical_low"}

\* The alerts of a payload that come from the stats engine.
EngineAlertsOf(alerts) ==
    Pick(alerts, {i \in DOMAIN alerts : alerts[i] \in EngineAlerts}, 1)

\* C23: glucoseStats and the stats-engine alerts of a payload are computed
\* from exactly the observed points of the chart window: count is the
\* number of points tagged observed, tir, tar, tbr and average are the
\* shares and the mean of their values alone, and no predicted point,
\* connector or forecast, contributes.
StatsFromObservedOnly ==
    \A t \in Threads :
        HasDashboard(t)
        => LET d == th[t].dashboard[1]
               vals == ValuesOf(ObservedOf(d.points))
               n == Len(vals)
               share(S) == Some(Round2(100 * Cardinality(S), n))
               stats == d.glucoseStats
           IN  /\ n >= 1
               /\ stats.count = n
               /\ stats.average = Some(Round2(SumOf(vals), n))
               /\ stats.tir = share({i \in 1..n : vals[i] >= 70 /\ vals[i] <= 180})
               /\ stats.tar = share({i \in 1..n : vals[i] > 180})
               /\ stats.tbr = share({i \in 1..n : vals[i] < 70})
               /\ EngineAlertsOf(d.alerts)
                  = GenerateAlerts(ComputeGlycemicMetrics(
                        [i \in 1..n |-> [value_mg_dl |-> Some(vals[i])]]))

\* A payload with three observed points, all in range, and a forecast of
\* 260 mg/dL: tar is 0 and tir 100 per cent.
StatsFromObservedOnlyWitness ==
    \E t \in Threads :
        /\ HasDashboard(t)
        /\ LET d == th[t].dashboard[1]
           IN  /\ Len(ObservedOf(d.points)) = 3
               /\ \E i \in DOMAIN d.points :
                      d.points[i].type = "predicted" /\ d.points[i].value_mg_dl = 260
               /\ d.glucoseStats.count = 3
               /\ d.glucoseStats.tar = Some(0)
               /\ d.glucoseStats.tir = Some(10000)

\* =============================================================== C24
\* The trend of a context by the rule: delta is the last value minus the
\* first of the last five (of all of them when there are fewer).
TrendByRule(ctx) ==
    LET n == Len(ctx)
        k == IF n < 5 THEN n ELSE 5
    IN  IF k < 2 THEN "stable"
        ELSE LET delta == ctx[n] - ctx[n - k + 1]
             IN  IF delta >= 5 THEN "rising"
                 ELSE IF delta <= -5 THEN "falling" ELSE "stable"

\* C24: the trend card is computed from the last 5 context values (all of
\* them when the context is shorter): with delta = last - first it is
\* stable iff |delta| < 5, rising iff delta >= 5, falling iff delta <= -5,
\* and stable when there are fewer than 2 values; the payload's card is
\* that trend of the context cut for the forecast.
TrendFollowsRule ==
    \A t \in Threads :
        /\ (th[t].req.op = "trend" /\ th[t].pc = "done")
               => th[t].result = Some(TrendByRule(th[t].req.ctx))
        /\ HasDashboard(t)
               => /\ Len(th[t].ctx) = EnvConfig.lookback
                  /\ th[t].dashboard[1].cards.trend = TrendByRule(th[t].ctx)

\* A context of six values came out stable: its last value is 5 mg/dL
\* over its first but only 1 mg/dL over the first of its last five.
TrendFollowsRuleWitness ==
    \E t \in Threads :
        /\ th[t].req.op = "trend"
        /\ th[t].pc = "done"
        /\ th[t].req.ctx = <<100, 104, 104, 104, 104, 105>>
        /\ th[t].result = Some("stable")

\* =============================================================== C25
\* The alerts the rule gives for the points of a payload.
AlertsByRule(points) ==
    LET vals == ValuesOf(ObservedOf(points))
        pred == ValuesOf(PredictedOf(points))
    IN  Range(GenerateAlerts(ComputeGlycemicMetrics(
                  [i \in DOMAIN vals |-> [value_mg_dl |-> Some(vals[i])]])))
        \cup (IF \E i \in DOMAIN pred : pred[i] < 70
              THEN {"forecast_hypoglycemia"} ELSE {})
        \cup (IF \E i \in DOMAIN pred : pred[i] > 250
              THEN {"forecast_peak"} ELSE {})

\* C25: the alerts of a payload are exactly the stats-engine alerts of its
\* observed points, the forecast hypoglycemia alert iff the value of some
\* point tagged predicted is under 70 and the forecast peak alert iff the
\* value of some point tagged predicted is over 250: no other alert, none
\* dropped, none twice.
AlertsAreTheUnion ==
    \A t \in Threads :
        HasDashboard(t)
        => LET d == th[t].dashboard[1]
           IN  /\ Range(d.alerts) = AlertsByRule(d.points)
               /\ Cardinality(Range(d.alerts)) = Len(d.alerts)

\* A payload whose forecast holds no value under 70 carries the forecast
\* hypoglycemia alert of its connector point, next to the engine's alerts
\* on the observed points.
AlertsAreTheUnionWitness ==
    \E t \in Threads :
        /\ HasDashboard(t)
        /\ LET d == th[t].dashboard[1]
               pred == PredictedOf(d.points)
           IN  /\ pred[1].value_mg_dl < 70
               /\ \A i \in 2..Len(pred) : pred[i].value_mg_dl = 260
               /\ Len(pred) = 3
               /\ Range(d.alerts)
                  = {"forecast_hypoglycemia", "forecast_peak",
                     "hypoglycemia_risk", "critical_low"}

\* =============================================================== C26
\* The row of the uploaded table, among those that survive coercion, that
\* comes last with the instant ts.
LastUploaded(t, ts) ==
    LET rows == Surviving(t)
        last == CHOOSE i \in DOMAIN rows :
                    /\ rows[i].timestamp = ts
                    /\ \A j \in DOMAIN rows : rows[j].timestamp = ts => j <= i
    IN  rows[last]

\* C26: after ingestion the series is strictly ascending by timestamp, no
\* two rows sharing one, and for every timestamp that occurs several times
\* in the upload the row retained is the one that came last in the
\* uploaded table, whatever the order of the rows.
LastWriteWins ==
    \A t \in Threads :
        Ingested(t)
        => /\ \A i, j \in DOMAIN th[t].df :
                  i < j => th[t].df[i].timestamp < th[t].df[j].timestamp
           /\ \A i \in DOMAIN th[t].df :
                  th[t].df[i] = LastUploaded(t, th[t].df[i].timestamp)

\* =============================================================== C27
\* The positions of the series rows inside the chart window of a payload.
InWindow(t) ==
    LET anchor_time == th[t].dashboard[1].meta.anchor_time.m
        cfg == EnvConfig
    IN  {i \in DOMAIN th[t].df :
            /\ anchor_time - 60 <= th[t].df[i].timestamp
            /\ th[t].df[i].timestamp
                   <= anchor_time + cfg.freq_min * MaxOf(cfg.offsets)}

\* C27: the observed points of a payload are exactly the series rows whose
\* timestamp t satisfies anchor_time - 60 min <= t <= anchor_time +
\* freq_min * max(offsets) min, both ends included: each such row once,
\* with its value, in ascending timestamp order, and no other row.
ObservedAreTheWindow ==
    \A t \in Threads :
        HasDashboard(t)
        => LET obs == ObservedOf(th[t].dashboard[1].points)
               df == th[t].df
           IN  /\ Len(obs) = Cardinality(InWindow(t))
               /\ {<<obs[i].timestamp.m, obs[i].value_mg_dl>> : i \in DOMAIN obs}
                  = {<<df[i].timestamp, df[i].glucose>> : i \in InWindow(t)}
               /\ \A i, j \in DOMAIN obs :
                      i < j => obs[i].timestamp.m < obs[j].timestamp.m

\* A payload anchored at minute 60 of a series sampled at minutes 0, 60
\* and 66, with a window of 5 minutes after the anchor: the row an hour
\* before the anchor is observed and the row 6 minutes after it is not.
ObservedAreTheWindowWitness ==
    \E t \in Threads :
        /\ HasDashboard(t)
        /\ th[t].dashboard[1].meta.anchor_time.m = 60
        /\ {th[t].df[i].timestamp : i \in DOMAIN th[t].df} = {0, 60, 66}
        /\ EnvConfig.freq_min * MaxOf(EnvConfig.offsets) = 5
        /\ {p.timestamp.m : p \in Range(ObservedOf(th[t].dashboard[1].points))}
           = {0, 60}

\* =============================================================== C28
\* C28: for every upload that passes ingestion, meta.patient_id and
\* meta.session_id of the payload, and the patient_id and
\* source_session_id given to create_session, are the one patient_id and
\* the one session_id the ingestor validated, also when some surviving
\* rows have no patient_id or no session_id.
MetaIdsAreValidated ==
    \A t \in Threads :
        /\ HasDashboard(t)
               => /\ Patients(t) = {th[t].dashboard[1].meta.patient_id}
                  /\ Sessions(t) = {th[t].dashboard[1].meta.session_id}
        /\ (IsUpload(t) /\ th[t].pc = "done" /\ th[t].result # None)
               => /\ Patients(t) = {sessions[Len(sessions)].patient_id}
                  /\ Sessions(t) = {sessions[Len(sessions)].source_session_id}

\* =============================================================== C29
\* The anchor reading is among the observed points of the payload, whose
\* statistics are therefore those of at least one value.
AnchorObserved(t) ==
    LET d == th[t].dashboard[1]
        obs == ObservedOf(d.points)
        row == th[t].df[th[t].anchor_idx + 1]
    IN  /\ obs # <<>>
        /\ \E i \in DOMAIN obs :
               /\ obs[i].timestamp = d.meta.anchor_time
               /\ obs[i].timestamp = IsoFormat(row.timestamp)
               /\ obs[i].value_mg_dl = row.glucose
        /\ d.glucoseStats.count >= 1
        /\ d.glucoseStats.tir # None
        /\ d.glucoseStats.tar # None
        /\ d.glucoseStats.tbr # None
        /\ d.glucoseStats.average # None

\* C29 as stated: in every dashboard payload the observed points are not
\* empty and include the anchor reading, so that count >= 1 and tir, tar,
\* tbr and average are never null.
AnchorAlwaysObserved ==
    \A t \in Threads : HasDashboard(t) => AnchorObserved(t)

\* C29: in every dashboard payload built under a configuration whose
\* freq_min is not negative, the observed points are not empty and include
\* the anchor reading, count >= 1 and tir, tar, tbr and average are not
\* null.
AnchorObservedInForwardWindow ==
    \A t \in Threads :
        (HasDashboard(t) /\ EnvConfig.freq_min >= 0) => AnchorObserved(t)

\* A payload with a retrospective anchor whose window ends at the row
\* after the anchor: three observed points, the second the anchor's.
AnchorObservedWitness ==
    \E t \in Threads :
        /\ HasDashboard(t)
        /\ EnvConfig.freq_min > 0
        /\ RetrospectiveAnchor(t)
        /\ AnchorObserved(t)
        /\ Len(ObservedOf(th[t].dashboard[1].points)) = 3
        /\ ObservedOf(th[t].dashboard[1].points)[2].timestamp
               = th[t].dashboard[1].meta.anchor_time

====
